---- MODULE Spec2Model ----
(***************************************************************************)
(* AlgoBank backend: the double-entry transfer (createTransfer) running    *)
(* inside Database.withTransaction against PostgreSQL (READ COMMITTED),    *)
(* the hash-chained audit log, the compliance simulation, the risk         *)
(* evaluation and the alert service.                                       *)
(*                                                                         *)
(* Money.  accounts.balance and transactions.amount are NUMERIC(20,4):     *)
(* they are integers counted in ticks of 0.0001.  A requested amount is a  *)
(* JavaScript number that the route only requires to be a float > 0, so it *)
(* can be finer than a tick: requested amounts are counted in half ticks   *)
(* (0.00005).  PostgreSQL computes balance - $1 exactly and rounds the     *)
(* result to the column's scale, ties away from zero.                      *)
(***************************************************************************)
EXTENDS Integers, Sequences, FiniteSets, TLC

----------------------------------------------------------------------------
(* Bounds of the model *)

MaxTransfers == 2       \* transfer requests served when nodeEnv is "test"
MaxAlertingTransfers == 1   \* transfer requests served when it is not
MaxFunds == 1           \* external funding statements in one behaviour

Tasks == {1, 2}         \* concurrently served requests

----------------------------------------------------------------------------
(* Fixed data *)

TicksPerUnit == 10000               \* NUMERIC(20,4): 1.0000 is 10000 ticks
HalvesPerTick == 2                  \* requested amounts are in 0.00005
Halves(units) == units * TicksPerUnit * HalvesPerTick

\* well-formed account ids: "A" and "B" have a row from the start, "X" has
\* none until POST /accounts makes one, "C" and "D" have one only where the
\* initial state says so
AccountIds == {"A", "B", "C", "D", "X"}
TransferIds == {"A", "B", "X"}      \* the ids transfer requests name
NewAccountIds == {"X"}              \* the ids INSERT INTO accounts can give
\* a row of accounts; its balance and its row lock are kept apart
AccountRow(id, userId, currency) ==
    [id |-> id, user_id |-> userId, currency |-> currency]
SeedAccounts == {AccountRow("A", "u1", "USD"), AccountRow("B", "u2", "USD")}
\* a row of users; the id stands for the e-mail address too, as
\* users.email is UNIQUE
UserRow(email) == [id |-> email, email |-> email]
SeedUsers == {UserRow("u1"), UserRow("u2")}
Currencies == {"USD", "EUR"}
Requesters == { [id |-> "u1", role |-> "client"],
                [id |-> "root", role |-> "admin"] }
\* Number(amount) of an amount that is not a number: NaN is kept as a
\* number that no amount in half ticks equals; like NaN it is not <= 0
NaN == 1073741823
Amounts == {0, 1, Halves(250), Halves(1000), NaN}
FundAmounts == {1000 * TicksPerUnit}
FundedIds == {"A"}                  \* the account funded from outside
\* a memo is its sequence of characters
Memos == { <<"r", "e", "n", "t">>, <<"C", "r", "y", "p", "t", "o">> }

AllRequests ==
    [sourceAccountId : TransferIds, destinationAccountId : TransferIds,
     amount : Amounts, currency : Currencies, memo : Memos,
     requester : Requesters]

\* the pairs of accounts the requests for 250 USD name
TransferPairs ==
    { <<"A", "B">>, <<"B", "A">>, <<"A", "A">>, <<"A", "X">>, <<"X", "A">> }

\* The requests served: 250 USD with the memo "rent" between every pair of
\* TransferPairs by the client, and between A and B by the admin too, and
\* the client's transfers from A to B of every amount, and of 250 in the
\* other currency or with the other memo.
Requests ==
    {r \in AllRequests :
        \/ /\ r.amount = Halves(250) /\ r.currency = "USD"
           /\ r.memo = <<"r", "e", "n", "t">>
           /\ <<r.sourceAccountId, r.destinationAccountId>> \in TransferPairs
           /\ \/ r.requester.role = "client"
              \/ {r.sourceAccountId, r.destinationAccountId} = {"A", "B"}
        \/ /\ r.requester.role = "client"
           /\ r.sourceAccountId = "A"
           /\ r.destinationAccountId = "B"
           /\ \/ r.currency = "USD" /\ r.memo = <<"r", "e", "n", "t">>
              \/ r.amount = Halves(250) /\ r.currency = "USD"
              \/ r.amount = Halves(250) /\ r.memo = <<"r", "e", "n", "t">>}

NoRow == [id |-> "none"]
NullHash == <<>>                    \* previous_hash IS NULL

----------------------------------------------------------------------------
(* Arithmetic of the stored columns *)

Max(a, b) == IF a >= b THEN a ELSE b
Abs(a) == IF a >= 0 THEN a ELSE -a

\* NUMERIC(20,4) assignment: a value in half ticks rounded to ticks, ties
\* away from zero.
RoundToScale(h) == IF h >= 0 THEN (h + 1) \div 2 ELSE -((-h + 1) \div 2)

\* UPDATE accounts SET balance = balance - $1
DebitBalance(bal, amount) == RoundToScale(HalvesPerTick * bal - amount)
\* UPDATE accounts SET balance = balance + $1
CreditBalance(bal, amount) == RoundToScale(HalvesPerTick * bal + amount)

\* the balance is not compared with the amount
InsufficientFundsUnchecked(bal, amount) == FALSE

\* the comparison with its operands swapped
InsufficientFundsSwapped(bal, amount) == amount < HalvesPerTick * bal

\* sourceBalance < sanitizedAmount, both as JavaScript numbers
InsufficientFunds(bal, amount) == HalvesPerTick * bal < amount

\* Number.isNaN(sanitizedAmount)
NumberIsNaN(amount) == amount = NaN

\* the sum of f over S, added up one value of f at a time: the value times
\* the number of elements of S that have it
RECURSIVE SumOver(_, _)
SumOver(S, f) ==
    IF S = {} THEN 0
    ELSE LET v == f[CHOOSE y \in S : TRUE]
             same == {y \in S : f[y] = v}
         IN  v * Cardinality(same) + SumOver(S \ same, f)

\* crypto.createHash("sha256") over JSON.stringify({eventType, payload,
\* previousHash}): an injective function of the three.
Digest(eventType, payload, previousHash) == <<eventType, payload, previousHash>>

-----------------------------------------------------------------------------
(* encryptionService and vaultService. Byte strings are kept symbolic: a    *)
(* ciphertext names the key, the nonce and the data it was made from, and   *)
(* opens only under them.                                                   *)

\* the value undefined, which only the optional member memo can have
Undefined == <<"undefined">>

\* the value null
Null == <<"null">>

\* JSON.stringify of an object: the members whose value is not undefined;
\* a number that is NaN (only the amount is a number) is written as null
JsonStringify(payload) ==
    {<<k, IF k = "amount" /\ payload[k] = NaN THEN Null ELSE payload[k]>> :
        k \in {m \in DOMAIN payload :
                    m # "memo" \/ payload[m] # Undefined}}

\* JSON.parse of what JSON.stringify wrote
JsonParse(text) ==
    [k \in {m[1] : m \in text} |-> (CHOOSE m \in text : m[1] = k)[2]]

\* reading member k of an object
Member(object, k) ==
    IF k \in DOMAIN object THEN object[k] ELSE Undefined

\* aes-256-gcm: cipher.update/final and getAuthTag
AesGcmEncrypt(aesKey, iv, text) ==
    [ciphertext |-> [key |-> aesKey, iv |-> iv, text |-> text],
     authTag |-> [key |-> aesKey, iv |-> iv, text |-> text]]

\* decipher.update/final after setAuthTag: the text, or the error thrown
\* when key, nonce or tag do not belong to the ciphertext
AesGcmDecrypt(aesKey, iv, authTag, ciphertext) ==
    IF /\ aesKey = ciphertext.key
       /\ iv = ciphertext.iv
       /\ authTag = [key |-> aesKey, iv |-> iv, text |-> ciphertext.text]
    THEN [ok |-> TRUE, text |-> ciphertext.text]
    ELSE [ok |-> FALSE, error |-> "DecipherError"]

\* crypto.publicEncrypt and crypto.privateDecrypt with the configured pair
publicEncrypt(aesKey) == [wrap |-> "rsa-oaep", key |-> aesKey]
privateDecrypt(encryptedKey) == encryptedKey.key

\* Buffer.toString("base64") and Buffer.from(x, "base64"); the latter never
\* fails: a string that is not the base64 of a key gives other bytes
ToBase64(aesKey) == [base64 |-> aesKey]
FromBase64(string) ==
    IF "base64" \in DOMAIN string THEN string.base64
    ELSE [bytes |-> "not a key"]

\* what the transit service may do with a request
VaultResponses ==
    {"ok", "no data", "empty", "error", "unreachable", "wrong key"}

\* the string ''
EmptyString == [string |-> ""]

Thrown == [thrown |-> TRUE]
IsThrown(x) == "thrown" \in DOMAIN x

\* encryptWithVault: the external wrap of the content key, or the throw
encryptWithVault(aesKey, configured, response) ==
    IF ~configured THEN ToBase64(aesKey)
    ELSE IF response \in {"ok", "wrong key"}
         THEN [vault |-> "v1", key |-> aesKey]
    ELSE IF response = "no data" THEN ToBase64(aesKey)
    ELSE IF response = "empty" THEN EmptyString
    ELSE Thrown

\* decryptWithVault: the bytes it returns, or the throw. The service
\* answers "ok" only to a ciphertext it made.
decryptWithVault(ciphertext, configured, response, otherKey) ==
    IF ~configured THEN FromBase64(ciphertext)
    ELSE IF response = "ok" /\ "vault" \in DOMAIN ciphertext
         THEN ciphertext.key
    ELSE IF response = "wrong key" THEN otherKey
    ELSE Thrown

\* lines 263-287 of encryptPayload, given the random bytes and the wrap
Envelope(payload, aesKey, iv, vaultCiphertext) ==
    LET sealed == AesGcmEncrypt(aesKey, iv, JsonStringify(payload))
    IN  [encryptedKey |-> publicEncrypt(aesKey),
         iv |-> iv,
         authTag |-> sealed.authTag,
         ciphertext |-> sealed.ciphertext,
         vaultCiphertext |-> vaultCiphertext]

\* `if (input.vaultCiphertext)': the member is there and is not ''
HasVaultCiphertext(input) ==
    /\ "vaultCiphertext" \in DOMAIN input
    /\ input.vaultCiphertext # EmptyString

\* decryptPayload taking the unwrapped key as it comes: decryptWithVault is
\* asked only for an envelope with a non-empty vaultCiphertext, whatever
\* bytes it returns are the key, and the asymmetric unwrap is used when it
\* was not asked or threw
decryptPayload(input, configured, response, otherKey) ==
    LET fromVault == IF HasVaultCiphertext(input)
                     THEN decryptWithVault(input.vaultCiphertext, configured,
                                           response, otherKey)
                     ELSE Thrown
        aesKey == IF IsThrown(fromVault)
                  THEN privateDecrypt(input.encryptedKey)
                  ELSE fromVault
        opened == AesGcmDecrypt(aesKey, input.iv, input.authTag,
                                input.ciphertext)
    IN  IF opened.ok
        THEN [ok |-> TRUE, value |-> JsonParse(opened.text)]
        ELSE opened

\* line 56-63 of createTransfer
payloadForEncryption(r) ==
    [sourceAccountId |-> r.sourceAccountId,
     destinationAccountId |-> r.destinationAccountId,
     amount |-> r.amount, currency |-> r.currency,
     memo |-> r.memo, createdBy |-> r.requester.id]

\* encryptPayload as createTransfer calls it: a fresh random content key and
\* nonce for every call (the call number stands for them); no transit
\* service is configured for the ledger
encryptPayload(call, r) ==
    Envelope(payloadForEncryption(r), [random |-> call], <<"iv", call>>,
             encryptWithVault([random |-> call], FALSE, "ok"))

----------------------------------------------------------------------------
VARIABLES
    nodeEnv,            \* env.nodeEnv
    accounts,           \* rows of accounts (id, user_id, currency)
    clock,              \* PostgreSQL's clock, read by NOW() at BEGIN
    started,            \* transfer requests received so far
    funds,              \* external funding statements so far
    funded,             \* total of the externally funded ticks
    balance,            \* accounts.balance, committed
    lockOwner,          \* row lock of each account: a task or 0
    transactions,       \* committed rows of transactions
    audit_logs,         \* committed rows of audit_logs
    compliance_checks,  \* committed rows of compliance_checks
    risk_metrics,       \* committed rows of risk_metrics
    risk_alerts,        \* committed rows of risk_alerts
    risk_anomalies,     \* committed rows of risk_anomalies
    pc,                 \* position of each task inside createTransfer
    req,                \* the request each task serves
    local,              \* local variables of each task's createTransfer
    pend,               \* uncommitted writes of each task's transaction
    outcome,            \* how each task's last request ended
    scene,              \* history: what each request found when it arrived
    enableRedisStreams, \* env.enableRedisStreams
    redis,              \* pool.ts: the module's Redis client, if any
    stream,             \* entries of the Redis stream "risk-alerts"
    refresh_tokens,     \* table refresh_tokens
    responses,          \* what the authentication requests were answered
    users,              \* table users
    rsaKeyPair,         \* env.rsaPublicKey and env.rsaPrivateKey are both set
    call                \* a direct call of one function: arguments, result

tables == <<transactions, audit_logs, compliance_checks, risk_metrics,
            risk_alerts, risk_anomalies>>
held == <<balance, lockOwner>>
db == <<balance, lockOwner, tables>>
counts == <<nodeEnv, started, funds, funded>>
ctl == <<nodeEnv, clock, started, funds, funded>>
bus == <<enableRedisStreams, redis, stream>>
auth == <<refresh_tokens, responses, users>>
vars == <<accounts, nodeEnv, clock, started, funds, funded, balance, lockOwner,
          transactions, audit_logs, compliance_checks, risk_metrics,
          risk_alerts, risk_anomalies, pc, req, local, pend, outcome,
          scene, enableRedisStreams, redis, stream, rsaKeyPair, call,
          refresh_tokens, responses, users>>

\* what the accounts table holds
Existing == {r.id : r \in accounts}
Owner == [a \in Existing |-> (CHOOSE r \in accounts : r.id = a).user_id]
AccountCurrency ==
    [a \in Existing |-> (CHOOSE r \in accounts : r.id = a).currency]

NoPend == [delta |-> [a \in AccountIds |-> 0], transactions |-> {},
           audit_logs |-> {}, compliance_checks |-> {}, risk_metrics |-> {},
           risk_alerts |-> {}, risk_anomalies |-> {}]

NoAudit == [eventType |-> "none", payload |-> <<>>, previousHash |-> NullHash,
            ret |-> "none"]

\* evaluateAccountRisk's arguments and what it has read so far
NoRisk == [account |-> "none", field |-> "none", next |-> "none",
           balance |-> 0, transactions |-> {}, metrics |-> <<>>]

\* `client' says whether the request's statements run on a client of their
\* own, inside BEGIN ... COMMIT, or on the pool
NoLocal == [n |-> 0, start |-> 0, client |-> TRUE, risk |-> NoRisk,
            encryptedPayload |-> <<>>,
            debit |-> NoRow, credit |-> NoRow, sourceAccount |-> NoRow,
            destinationAccount |-> NoRow, locks |-> {}, aud |-> NoAudit,
            alerts |-> <<>>, alert |-> NoRow, ret |-> "none",
            compliance |-> <<>>,
            sourceRisk |-> <<>>, destinationRisk |-> <<>>,
            served |-> NoRow]

NoRequest == [sourceAccountId |-> "none"]

NoScene == [peers |-> {}, existing |-> {}, balance |-> 0, funds |-> 0]

NoCall == [fn |-> "none"]

\* env.ts lines 37-46: a missing RSA_PRIVATE_KEY or RSA_PUBLIC_KEY ends the
\* process at load when NODE_ENV is "production", and is a warning otherwise
KeyPairSettings ==
    IF nodeEnv = "production" THEN {TRUE} ELSE BOOLEAN

\* the server has started and the migrations have run; no alert is raised
\* when nodeEnv is "test", so the stream setting matters in production only
Configured ==
    /\ nodeEnv \in {"test", "production"}
    /\ enableRedisStreams \in (IF nodeEnv = "test" THEN {FALSE} ELSE BOOLEAN)
    /\ rsaKeyPair \in KeyPairSettings
    /\ redis = "none"
    /\ stream = {}

\* no request is being served
Idle ==
    /\ clock = 0
    /\ started = 0
    /\ funds = 0
    /\ funded = 0
    /\ lockOwner = [a \in AccountIds |-> 0]
    /\ refresh_tokens = {}
    /\ responses = {}
    /\ users = SeedUsers
    /\ pc = [t \in Tasks |-> "idle"]
    /\ req = [t \in Tasks |-> NoRequest]
    /\ local = [t \in Tasks |-> NoLocal]
    /\ pend = [t \in Tasks |-> NoPend]
    /\ outcome = [t \in Tasks |-> "none"]
    /\ scene = [t \in Tasks |-> NoScene]

\* no request is being served and nothing but accounts and transactions
\* may have been written
Quiet ==
    /\ Idle
    /\ audit_logs = {}
    /\ compliance_checks = {}
    /\ risk_metrics = {}
    /\ risk_alerts = {}
    /\ risk_anomalies = {}

Started ==
    /\ Configured
    /\ Quiet
    /\ accounts = SeedAccounts
    /\ balance = [a \in AccountIds |-> 0]
    /\ transactions = {}

Init == Started /\ call = NoCall

----------------------------------------------------------------------------
(* What a statement of task t's transaction sees: the committed rows and   *)
(* the transaction's own uncommitted rows.                                 *)

\* the committed balance, without the transaction's own updates
CommittedBalance(t, a) == balance[a]

VisibleBalance(t, a) == balance[a] + pend[t].delta[a]
VisibleTransactions(t) == transactions \cup pend[t].transactions
VisibleAudit(t) == audit_logs \cup pend[t].audit_logs

\* throw inside the handler: withTransaction's catch issues ROLLBACK next
Throw(t, error) ==
    /\ pc' = [pc EXCEPT ![t] = "rollback"]
    /\ outcome' = [outcome EXCEPT ![t] = error]

Goto(t, label) == pc' = [pc EXCEPT ![t] = label]

\* the end of task t's transaction frees the row locks it holds
ReleaseLocks(t) ==
    lockOwner' = [a \in AccountIds |->
                    IF lockOwner[a] = t THEN 0 ELSE lockOwner[a]]

\* the server fails a statement of task t.  On the transaction's client
\* PostgreSQL ends the transaction at the error: its writes are discarded
\* and its row locks are free from then on; the handler is left with the
\* rejection, and the ROLLBACK of withTransaction's catch comes later.  On
\* the pool there is no transaction and the route handler goes on to
\* next(error).
ServerError(t, error) ==
    /\ Throw(t, error)
    /\ ReleaseLocks(t)
    /\ pend' = [pend EXCEPT ![t] = NoPend]
    /\ local' = [local EXCEPT ![t] =
                    IF local[t].client
                    THEN [NoLocal EXCEPT !.n = local[t].n,
                                         !.start = local[t].start,
                                         !.locks = local[t].locks]
                    ELSE local[t]]

----------------------------------------------------------------------------
(* createTransfer, before the unit of work *)

\* the requests one behaviour serves
TransferBudget ==
    IF nodeEnv = "test" THEN MaxTransfers ELSE MaxAlertingTransfers

\* a worker that serves no request; the pool hands a new request to the
\* first free worker
Free(t) == pc[t] = "idle"

\* history of a request: the requests in flight when it arrived, the
\* accounts it names that were there, the committed balance of its source
\* account and the fundings made so far
Scene(t, r) ==
    [peers |-> {u \in Tasks \ {t} : pc[u] \notin {"idle", "done"}},
     existing |-> Existing \cap {r.sourceAccountId, r.destinationAccountId},
     balance |-> IF r.sourceAccountId \in Existing
                 THEN balance[r.sourceAccountId] ELSE 0,
     funds |-> funds]

\* lines 48-65: the two request checks, then encryptPayload, which throws
\* when the key pair is not configured (part_002 lines 259-261)
createTransfer(t, r) ==
    /\ Free(t)
    /\ \A u \in Tasks : u < t => ~Free(u)
    /\ started < TransferBudget
    /\  IF \/ r.sourceAccountId = r.destinationAccountId
            \/ NumberIsNaN(r.amount)
            \/ r.amount <= 0
        THEN /\ pc' = [pc EXCEPT ![t] = "done"]
             /\ outcome' = [outcome EXCEPT ![t] = "ValidationError"]
             /\ req' = [req EXCEPT ![t] = r]
             /\ scene' = [scene EXCEPT ![t] = Scene(t, r)]
             /\ local' = [local EXCEPT ![t] = NoLocal]
        ELSE IF ~rsaKeyPair
        THEN /\ pc' = [pc EXCEPT ![t] = "done"]
             /\ outcome' = [outcome EXCEPT ![t] = "KeyPairNotConfigured"]
             /\ req' = [req EXCEPT ![t] = r]
             /\ scene' = [scene EXCEPT ![t] = Scene(t, r)]
             /\ local' = [local EXCEPT ![t] = NoLocal]
        ELSE /\ pc' = [pc EXCEPT ![t] = "begin"]
             /\ outcome' = [outcome EXCEPT ![t] = "running"]
             /\ req' = [req EXCEPT ![t] = r]
             /\ scene' = [scene EXCEPT ![t] = Scene(t, r)]
             /\ local' = [local EXCEPT ![t] =
                    [NoLocal EXCEPT !.n = started + 1,
                                    !.encryptedPayload =
                                        encryptPayload(started + 1, r)]]
    /\ started' = started + 1
    /\ pend' = [pend EXCEPT ![t] = NoPend]
    /\ UNCHANGED <<bus, accounts, rsaKeyPair, auth, call, db, nodeEnv, clock, funds, funded>>

\* POST /transactions/transfer
Start(t) == \E r \in Requests : createTransfer(t, r)

\* withTransaction: pool.connect() and BEGIN; NOW() is fixed from here on
Begin(t) ==
    /\ pc[t] = "begin"
    /\ clock' = clock + 1
    /\ local' = [local EXCEPT ![t].start = clock + 1]
    /\ Goto(t, "lock_source")
    /\ UNCHANGED <<bus, accounts, rsaKeyPair, auth, call, scene, db, nodeEnv, started, funds, funded, req, pend, outcome>>

\* SELECT ... WHERE id = $1 without FOR UPDATE: the row is read and no lock
\* is taken
findAccountByIdUnlocked(t, a, field, next) ==
    /\ local' = [local EXCEPT
            ![t][field] = IF a \in Existing
                          THEN [id |-> a, user_id |-> Owner[a],
                                balance |-> VisibleBalance(t, a),
                                currency |-> AccountCurrency[a]]
                          ELSE NoRow]
    /\ Goto(t, next)
    /\ UNCHANGED lockOwner

\* findAccountByIdForUpdate: SELECT ... FOR UPDATE waits while another
\* transaction holds the row, then returns the committed row (or no row)
findAccountByIdForUpdate(t, a, field, next) ==
    IF a \in Existing
    THEN /\ lockOwner[a] \in {0, t}
         /\ lockOwner' = [lockOwner EXCEPT ![a] = t]
         /\ local' = [local EXCEPT
                ![t][field] = [id |-> a, user_id |-> Owner[a],
                               balance |-> VisibleBalance(t, a),
                               currency |-> AccountCurrency[a]],
                ![t].locks = @ \cup {a}]
         /\ Goto(t, next)
    ELSE /\ local' = [local EXCEPT ![t][field] = NoRow]
         /\ Goto(t, next)
         /\ UNCHANGED lockOwner

LockSource(t) ==
    /\ pc[t] = "lock_source"
    /\ findAccountByIdForUpdate(t, req[t].sourceAccountId, "sourceAccount",
                                "lock_destination")
    /\ UNCHANGED <<bus, accounts, rsaKeyPair, auth, call, scene, balance, tables, ctl, req, pend, outcome>>

\* the destination is read with findAccountById, a plain SELECT
LockDestinationPlain(t) ==
    /\ pc[t] = "lock_destination"
    /\ findAccountByIdUnlocked(t, req[t].destinationAccountId,
                               "destinationAccount", "check")
    /\ UNCHANGED <<bus, accounts, rsaKeyPair, auth, call, scene, balance, tables, ctl, req, pend, outcome>>

LockDestination(t) ==
    /\ pc[t] = "lock_destination"
    /\ findAccountByIdForUpdate(t, req[t].destinationAccountId,
                                "destinationAccount", "check")
    /\ UNCHANGED <<bus, accounts, rsaKeyPair, auth, call, scene, balance, tables, ctl, req, pend, outcome>>

\* the checks of lines 71-86 without the comparison of currencies
CheckErrorNoCurrency(t) ==
    LET s == local[t].sourceAccount
        d == local[t].destinationAccount
        r == req[t]
    IN  IF s = NoRow \/ d = NoRow THEN "NotFoundError"
        ELSE IF r.requester.role = "client" /\ r.requester.id # s.user_id
             THEN "ForbiddenError"
        ELSE IF InsufficientFunds(s.balance, r.amount)
             THEN "InsufficientFundsError"
        ELSE "none"

\* the checks of lines 71-86 with line 71 looking at the source only: a
\* destination that was not found has no currency to agree with
CheckErrorSourceOnly(t) ==
    LET s == local[t].sourceAccount
        d == local[t].destinationAccount
        r == req[t]
    IN  IF s = NoRow THEN "NotFoundError"
        ELSE IF r.requester.role = "client" /\ r.requester.id # s.user_id
             THEN "ForbiddenError"
        ELSE IF d = NoRow \/ s.currency # r.currency
             THEN "ValidationError"
        ELSE IF d.currency # r.currency
             THEN "ValidationError"
        ELSE IF InsufficientFunds(s.balance, r.amount)
             THEN "InsufficientFundsError"
        ELSE "none"

\* lines 71-86: the four checks made once both SELECTs have returned
CheckError(t) ==
    LET s == local[t].sourceAccount
        d == local[t].destinationAccount
        r == req[t]
    IN  IF s = NoRow \/ d = NoRow THEN "NotFoundError"
        ELSE IF r.requester.role = "client" /\ r.requester.id # s.user_id
             THEN "ForbiddenError"
        ELSE IF s.currency # r.currency \/ d.currency # r.currency
             THEN "ValidationError"
        ELSE IF InsufficientFunds(s.balance, r.amount)
             THEN "InsufficientFundsError"
        ELSE "none"

Check(t) ==
    /\ pc[t] = "check"
    /\ IF CheckError(t) # "none"
       THEN Throw(t, CheckError(t))
       ELSE Goto(t, "debit") /\ UNCHANGED outcome
    /\ UNCHANGED <<bus, accounts, rsaKeyPair, auth, call, scene, db, ctl, req, local, pend>>

----------------------------------------------------------------------------
(* createTransfer, the mutations of the unit of work *)

AddPend(t, table, row) ==
    pend' = [pend EXCEPT ![t][table] = @ \cup {row}]

\* NOW() as a statement of task t reads it: the time of BEGIN inside a
\* transaction, the time of the statement on the pool
Now(t) == IF local[t].client THEN local[t].start ELSE clock + 1

\* `const runner = client ?? db': an INSERT through the transaction's client
\* stays private until COMMIT, one through the pool is committed at once
Insert(t, table, row) ==
    LET with(name, rows) == IF name = table THEN rows \cup {row} ELSE rows
    IN  IF local[t].client
        THEN /\ AddPend(t, table, row)
             /\ UNCHANGED <<tables, clock>>
        ELSE /\ transactions' = with("transactions", transactions)
             /\ audit_logs' = with("audit_logs", audit_logs)
             /\ compliance_checks' = with("compliance_checks",
                                          compliance_checks)
             /\ risk_metrics' = with("risk_metrics", risk_metrics)
             /\ risk_alerts' = with("risk_alerts", risk_alerts)
             /\ risk_anomalies' = with("risk_anomalies", risk_anomalies)
             /\ clock' = clock + 1
             /\ UNCHANGED pend

\* the entries of audit_logs task t's request has written so far
OwnEntries(t) == {e \in VisibleAudit(t) : e.id[1] = local[t].n}

\* lines 88-91: UPDATE accounts SET balance = balance - $1 WHERE id = source
Debit(t) ==
    /\ pc[t] = "debit"
    /\ LET a == req[t].sourceAccountId
       IN pend' = [pend EXCEPT ![t].delta[a] =
                DebitBalance(VisibleBalance(t, a), req[t].amount) - balance[a]]
    /\ Goto(t, "credit")
    /\ UNCHANGED <<bus, accounts, rsaKeyPair, auth, call, scene, db, ctl, req, local, outcome>>

\* lines 92-95: UPDATE accounts SET balance = balance + $1 WHERE id = dest
Credit(t) ==
    /\ pc[t] = "credit"
    /\ LET a == req[t].destinationAccountId
       IN pend' = [pend EXCEPT ![t].delta[a] =
                CreditBalance(VisibleBalance(t, a), req[t].amount) - balance[a]]
    /\ Goto(t, "insert_debit")
    /\ UNCHANGED <<bus, accounts, rsaKeyPair, auth, call, scene, db, ctl, req, local, outcome>>

\* each row is given a payload encrypted on its own, with a nonce of its own
insertTransactionOwnPayload(t, account, counterparty, direction, payload) ==
    [id |-> <<local[t].n, direction>>,
     account_id |-> account,
     counterparty_account_id |-> counterparty,
     amount |-> RoundToScale(req[t].amount),
     currency |-> req[t].currency,
     direction |-> direction,
     memo |-> req[t].memo,
     encrypted_payload |-> [payload EXCEPT !.iv = <<payload.iv, direction>>],
     created_at |-> local[t].start]

\* insertTransaction: the row as RETURNING gives it back.  amount is stored
\* in a NUMERIC(20,4) column, created_at defaults to NOW().
insertTransaction(t, account, counterparty, direction, payload) ==
    [id |-> <<local[t].n, direction>>,
     account_id |-> account,
     counterparty_account_id |-> counterparty,
     amount |-> RoundToScale(req[t].amount),
     currency |-> req[t].currency,
     direction |-> direction,
     memo |-> req[t].memo,
     encrypted_payload |-> payload,
     created_at |-> local[t].start]

\* lines 99-107
InsertDebit(t) ==
    /\ pc[t] = "insert_debit"
    /\ LET row == insertTransaction(t, req[t].sourceAccountId,
                                    req[t].destinationAccountId, "debit",
                                    local[t].encryptedPayload)
       IN /\ AddPend(t, "transactions", row)
          /\ local' = [local EXCEPT ![t].debit = row]
    /\ Goto(t, "insert_credit")
    /\ UNCHANGED <<bus, accounts, rsaKeyPair, auth, call, scene, db, ctl, req, outcome>>

\* the audit event recordAuditEvent is asked to append after the inserts
TransferEvent(t, debit, credit) ==
    [eventType |-> "transaction.transfer",
     payload |-> [debitTransactionId |-> debit.id,
                  creditTransactionId |-> credit.id,
                  sourceAccountId |-> req[t].sourceAccountId,
                  destinationAccountId |-> req[t].destinationAccountId,
                  amount |-> req[t].amount,
                  currency |-> req[t].currency,
                  createdBy |-> req[t].requester.id],
     previousHash |-> NullHash,
     ret |-> "kyc"]

\* lines 109-117, then the call of recordAuditEvent of lines 119-131
InsertCredit(t) ==
    /\ pc[t] = "insert_credit"
    /\ LET row == insertTransaction(t, req[t].destinationAccountId,
                                    req[t].sourceAccountId, "credit",
                                    local[t].encryptedPayload)
       IN /\ AddPend(t, "transactions", row)
          /\ local' = [local EXCEPT
                ![t].credit = row,
                ![t].aud = TransferEvent(t, local[t].debit, row)]
    /\ Goto(t, "audit_fetch")
    /\ UNCHANGED <<bus, accounts, rsaKeyPair, auth, call, scene, db, ctl, req, outcome>>

----------------------------------------------------------------------------
(* recordAuditEvent *)

\* fetchLatestHash: SELECT hash FROM audit_logs ORDER BY created_at DESC
\* LIMIT 1.  Rows with the same created_at are in no defined order: any of
\* the latest rows may be the one returned.
fetchLatestHash(rows) ==
    IF rows = {} THEN {NullHash}
    ELSE { e.hash : e \in {x \in rows :
                \A y \in rows : y.created_at <= x.created_at} }

AuditFetch(t) ==
    /\ pc[t] = "audit_fetch"
    /\ \E h \in fetchLatestHash(VisibleAudit(t)) :
        local' = [local EXCEPT ![t].aud.previousHash = h]
    /\ Goto(t, "audit_insert")
    /\ UNCHANGED <<bus, accounts, rsaKeyPair, auth, call, scene, db, ctl, req, pend, outcome>>

\* insertAuditLog with the hash computed from the fetched previous hash
insertAuditLog(id, ev, start) ==
    [id |-> id,
     event_type |-> ev.eventType,
     payload |-> ev.payload,
     hash |-> Digest(ev.eventType, ev.payload, ev.previousHash),
     previous_hash |-> ev.previousHash,
     created_at |-> start]

\* recordAuditEvent called without the transaction's client: the entry is
\* inserted through the pool and is committed at once
AuditInsertOnPool(t) ==
    /\ pc[t] = "audit_insert"
    /\ audit_logs' = audit_logs \cup
            {insertAuditLog(<<local[t].n, Cardinality(OwnEntries(t)) + 1>>,
                            local[t].aud, local[t].start)}
    /\ local' = [local EXCEPT ![t].aud = NoAudit]
    /\ Goto(t, local[t].aud.ret)
    /\ UNCHANGED <<bus, accounts, rsaKeyPair, auth, call, scene, balance, lockOwner, transactions, compliance_checks,
                   risk_metrics, risk_alerts, risk_anomalies, ctl, req, pend,
                   outcome>>

AuditInsert(t) ==
    /\ pc[t] = "audit_insert"
    /\ Insert(t, "audit_logs",
              insertAuditLog(<<local[t].n, Cardinality(OwnEntries(t)) + 1>>,
                             local[t].aud, Now(t)))
    /\ local' = [local EXCEPT ![t].aud = NoAudit]
    /\ Goto(t, local[t].aud.ret)
    /\ UNCHANGED <<bus, accounts, rsaKeyPair, auth, call, scene, held, counts,
                   req, outcome>>

----------------------------------------------------------------------------
(* alertService.raiseRiskAlert *)

\* insertRiskAlert: the row as RETURNING gives it back
insertRiskAlert(t, input) ==
    [id |-> <<local[t].n, input.alertType, input.accountId>>,
     account_id |-> input.accountId,
     alert_type |-> input.alertType,
     severity |-> input.severity,
     details |-> input.details,
     triggered_at |-> Now(t)]

AlertEvent(alert) ==
    [eventType |-> "risk.alert.raised",
     payload |-> [alertId |-> alert.id, alertType |-> alert.alert_type,
                  severity |-> alert.severity, accountId |-> alert.account_id,
                  details |-> alert.details],
     previousHash |-> NullHash,
     ret |-> "publish"]

\* raiseRiskAlert for the next alert the caller has to raise: insert the
\* alert row, then recordAuditEvent("risk.alert.raised")
RaiseAlert(t) ==
    /\ pc[t] = "alerts"
    /\ local[t].alerts # <<>>
    /\ LET alert == insertRiskAlert(t, Head(local[t].alerts))
       IN /\ Insert(t, "risk_alerts", alert)
          /\ local' = [local EXCEPT ![t].alerts = Tail(@),
                                    ![t].alert = alert,
                                    ![t].aud = AlertEvent(alert)]
    /\ Goto(t, "audit_fetch")
    /\ UNCHANGED <<bus, accounts, rsaKeyPair, auth, call, scene, held, counts,
                   req, outcome>>

\* what publishToStream sends: the alert flattened to strings
StreamEntry(alert) ==
    [id |-> alert.id, type |-> alert.alert_type, severity |-> alert.severity,
     accountId |-> IF alert.account_id = "null" THEN "" ELSE alert.account_id,
     triggeredAt |-> alert.triggered_at]

\* lines 502-510 of raiseRiskAlert: publishToStream up to its first await
\* that waits.  getRedisClient returns the module's client when there is
\* one, connected or not, and publishToStream calls xAdd on it; it returns
\* null after a failed connect; otherwise it makes the client, stores it
\* and awaits connect().
Publish(t) ==
    /\ pc[t] = "publish"
    /\ IF ~enableRedisStreams \/ redis = "failed"
       THEN Goto(t, "alerts") /\ UNCHANGED redis
       ELSE IF redis \in {"connecting", "connected"}
       THEN Goto(t, "xadd") /\ UNCHANGED redis
       ELSE Goto(t, "connect") /\ redis' = "connecting"
    /\ UNCHANGED <<scene, db, ctl, req, local, pend, enableRedisStreams,
                   stream, outcome, accounts, rsaKeyPair, auth, call>>

\* lines 71-78 of getRedisClient: connect() resolves and publishToStream
\* calls xAdd, or it rejects, the module forgets the client and remembers
\* the failure, and the publish is skipped
Connect(t) ==
    /\ pc[t] = "connect"
    /\ \/ redis' = "connected" /\ Goto(t, "xadd")
       \/ redis' = "failed" /\ Goto(t, "alerts")
    /\ UNCHANGED <<scene, db, ctl, req, local, pend, enableRedisStreams,
                   stream, outcome, accounts, rsaKeyPair, auth, call>>

\* line 97: redis.xAdd settles: the entry is added, or the call rejects.
\* The client it was called on may be one whose connect() is still pending
\* or has failed since.
xAdd(t) ==
    /\ pc[t] = "xadd"
    /\ \/ /\ stream' = stream \cup {StreamEntry(local[t].alert)}
          /\ Goto(t, "alerts")
          /\ UNCHANGED outcome
       \/ /\ Throw(t, "PublishError")
          /\ UNCHANGED stream
    /\ UNCHANGED <<scene, db, ctl, req, local, pend, enableRedisStreams,
                   redis, accounts, rsaKeyPair, auth, call>>

\* the caller goes on once its alerts are raised
AlertsDone(t) ==
    /\ pc[t] = "alerts"
    /\ local[t].alerts = <<>>
    /\ Goto(t, local[t].ret)
    /\ UNCHANGED <<bus, accounts, rsaKeyPair, auth, call, scene, db, ctl, req, local, pend, outcome>>

----------------------------------------------------------------------------
(* complianceService.runComplianceSimulation *)

AML_THRESHOLD == 50000
HIGH_RISK_MEMO_PATTERNS ==
    { <<"o", "f", "f", "s", "h", "o", "r", "e">>, <<"c", "r", "y", "p", "t", "o">>,
      <<"s", "h", "e", "l", "l">>, <<"h", "a", "w", "a", "l", "a">> }

UpperCase == <<"A", "B", "C", "D", "E", "F", "G", "H", "I", "J", "K", "L", "M",
               "N", "O", "P", "Q", "R", "S", "T", "U", "V", "W", "X", "Y", "Z">>
LowerCase == <<"a", "b", "c", "d", "e", "f", "g", "h", "i", "j", "k", "l", "m",
               "n", "o", "p", "q", "r", "s", "t", "u", "v", "w", "x", "y", "z">>
ToLower(c) ==
    IF \E i \in 1..26 : UpperCase[i] = c
    THEN LowerCase[CHOOSE i \in 1..26 : UpperCase[i] = c]
    ELSE c

\* pattern.test(memo) for a case-insensitive literal pattern
PatternTest(pattern, memo) ==
    \E i \in 1..(Len(memo) - Len(pattern) + 1) :
        \A k \in 1..Len(pattern) : ToLower(memo[i + k - 1]) = pattern[k]

\* the threshold test with > in the place of >=
IsHighValueStrict(amount) == amount > Halves(AML_THRESHOLD)

\* line 373: an absent or empty memo matches nothing
MemoMatch(memo) ==
    IF memo = <<>> THEN FALSE
    ELSE \E p \in HIGH_RISK_MEMO_PATTERNS : PatternTest(p, memo)

IsHighValue(amount) == amount >= Halves(AML_THRESHOLD)

AmlStatus(amount, memo) ==
    IF MemoMatch(memo) \/ IsHighValue(amount) THEN "failed" ELSE "passed"

\* insertComplianceCheck: the row as RETURNING gives it back
insertComplianceCheck(t, transactionId, checkType, status, details) ==
    [id |-> <<local[t].n, checkType>>,
     user_id |-> local[t].sourceAccount.user_id,
     transaction_id |-> transactionId,
     check_type |-> checkType,
     status |-> status,
     details |-> details,
     created_at |-> local[t].start]

ComplianceResult(row) ==
    [checkType |-> row.check_type, status |-> row.status,
     details |-> row.details]

\* simulateKyc leaving the check open: the row is written as "pending"
KycPending(t) ==
    /\ pc[t] = "kyc"
    /\ LET row == insertComplianceCheck(t, <<>>, "kyc-profile", "pending",
                    [verificationProvider |-> "MockID+",
                     riskScore |-> <<12, 100>>])
       IN /\ AddPend(t, "compliance_checks", row)
          /\ local' = [local EXCEPT ![t].compliance = <<ComplianceResult(row)>>]
    /\ Goto(t, "aml")
    /\ UNCHANGED <<bus, accounts, rsaKeyPair, auth, call, scene, db, ctl, req, outcome>>

\* simulateKyc
Kyc(t) ==
    /\ pc[t] = "kyc"
    /\ LET row == insertComplianceCheck(t, <<>>, "kyc-profile", "passed",
                    [verificationProvider |-> "MockID+",
                     riskScore |-> <<12, 100>>])
       IN /\ AddPend(t, "compliance_checks", row)
          /\ local' = [local EXCEPT ![t].compliance = <<ComplianceResult(row)>>]
    /\ Goto(t, "aml")
    /\ UNCHANGED <<bus, accounts, rsaKeyPair, auth, call, scene, db, ctl, req, outcome>>

AmlAlert(t, status) ==
    IF status = "failed" /\ nodeEnv # "test"
    THEN << [accountId |-> "null", alertType |-> "aml_flag",
             severity |-> "critical",
             details |-> [userId |-> local[t].sourceAccount.user_id,
                          transactionId |-> local[t].debit.id,
                          amount |-> req[t].amount,
                          currency |-> req[t].currency,
                          reason |-> IF MemoMatch(req[t].memo)
                                     THEN "memo_pattern" ELSE "high_value"]] >>
    ELSE <<>>

\* simulateAml
Aml(t) ==
    /\ pc[t] = "aml"
    /\ LET status == AmlStatus(req[t].amount, req[t].memo)
           row == insertComplianceCheck(t, local[t].debit.id,
                    "aml-transaction", status,
                    [amount |-> req[t].amount, currency |-> req[t].currency,
                     memo |-> req[t].memo,
                     rulesTriggered |->
                        [highValue |-> IsHighValue(req[t].amount),
                         memoPattern |-> MemoMatch(req[t].memo)]])
       IN /\ AddPend(t, "compliance_checks", row)
          /\ local' = [local EXCEPT
                ![t].compliance = Append(@, ComplianceResult(row)),
                ![t].alerts = AmlAlert(t, status),
                ![t].ret = "compliance_done"]
    /\ Goto(t, "alerts")
    /\ UNCHANGED <<bus, accounts, rsaKeyPair, auth, call, scene, db, ctl, req, outcome>>

ComplianceEvent(t) ==
    [eventType |-> "compliance.simulation.completed",
     payload |-> [transactionId |-> local[t].debit.id,
                  userId |-> local[t].sourceAccount.user_id,
                  results |-> local[t].compliance],
     previousHash |-> NullHash,
     ret |-> "risk_source"]

\* lines 442-456 of runComplianceSimulation
ComplianceDone(t) ==
    /\ pc[t] = "compliance_done"
    /\ IF nodeEnv # "test"
       THEN /\ local' = [local EXCEPT ![t].aud = ComplianceEvent(t)]
            /\ Goto(t, "audit_fetch")
       ELSE /\ Goto(t, "risk_source")
            /\ UNCHANGED local
    /\ UNCHANGED <<bus, accounts, rsaKeyPair, auth, call, scene, db, ctl, req, pend, outcome>>

----------------------------------------------------------------------------
(* riskMonitoringService.evaluateAccountRisk *)

OBSERVATION_WINDOW_DAYS == 90
WindowLimit == 200          \* listTransactionsForAccount(accountId, 200)
MinAnomalySamples == 5      \* detectAnomaly: transactions.length < 5
LossRatioLimit == 10000     \* loss_ratio NUMERIC(10,6) holds less than 10^4

\* listTransactionsForAccount: the results the query can give, each the most
\* recent `limit` rows of the account (ORDER BY created_at DESC LIMIT $2).
\* The rows the limit certainly keeps are those with no more than `limit`
\* rows at least as recent; where the limit cuts through rows of one
\* created_at the database keeps whichever of them it sorted first.
listTransactionsForAccount(rows, account, limit) ==
    LET mine == {x \in rows : x.account_id = account}
        inside == {x \in mine :
                    Cardinality({y \in mine : y.created_at >= x.created_at})
                        <= limit}
        edge == {x \in mine \ inside :
                    Cardinality({y \in mine : y.created_at > x.created_at})
                        < limit}
    IN  IF Cardinality(mine) <= limit THEN {mine}
        ELSE {inside \cup E :
                E \in {S \in SUBSET edge :
                        Cardinality(S) = limit - Cardinality(inside)}}

AmountOf(S) == [x \in S |-> Abs(x.amount)]

\* Number("250.0000") is the amount itself when the amount is a multiple of
\* 1/16: the doubles and their sums are then exact.  Any other amount is
\* the nearest double, and sums of such doubles carry rounding errors that
\* depend on the rows and their order.  For amounts below 10^8 these errors
\* decide a comparison only where the exact values are equal.
DoublesPerUnit == 16
ExactDouble(ticks) == ticks % (TicksPerUnit \div DoublesPerUnit) = 0

\* the doubles computeMetrics works with are the decimal values
ExactDoubles(accountBalance, txs) ==
    /\ ExactDouble(accountBalance)
    /\ \A x \in txs : ExactDouble(Abs(x.amount))

\* computeMetrics with a floor of one tick under the balance
computeMetricsTickFloor(accountBalance, txs) ==
    LET debits == {x \in txs : x.direction = "debit"}
        credits == txs \ debits
        totalDebits == SumOver(debits, AmountOf(txs))
        totalCredits == SumOver(credits, AmountOf(txs))
        rollingLoss == totalDebits - totalCredits
        netOutflow == totalDebits - totalCredits
    IN  [exposure |-> Max(0, netOutflow),
         leverage |-> <<totalDebits, Max(accountBalance, 1)>>,
         lossRatio |-> <<Max(0, rollingLoss), Max(totalCredits, TicksPerUnit)>>,
         exact |-> ExactDoubles(accountBalance, txs)]

\* computeMetrics: a ratio is kept as <<numerator, denominator>>, in ticks;
\* `exact' says that the doubles are these values
computeMetrics(accountBalance, txs) ==
    LET debits == {x \in txs : x.direction = "debit"}
        credits == txs \ debits
        totalDebits == SumOver(debits, AmountOf(txs))
        totalCredits == SumOver(credits, AmountOf(txs))
        rollingLoss == totalDebits - totalCredits
        netOutflow == totalDebits - totalCredits
    IN  [exposure |-> Max(0, netOutflow),
         leverage |-> <<totalDebits, Max(accountBalance, TicksPerUnit)>>,
         lossRatio |-> <<Max(0, rollingLoss), Max(totalCredits, TicksPerUnit)>>,
         exact |-> ExactDoubles(accountBalance, txs)]

\* a > b between doubles that stand for a and b: what the exact values
\* say, except that equal values compare either way when the doubles carry
\* rounding errors
Exceeds(a, b, exact) == IF a = b /\ ~exact THEN BOOLEAN ELSE {a > b}

\* num / den > 0.1 between such doubles, without forming 10 * num
ExceedsTenth(num, den, exact) ==
    IF den % 10 = 0 THEN Exceeds(num, den \div 10, exact)
    ELSE {num > den \div 10}

\* checkThresholds: the alerts it raises, in the order it raises them
checkThresholds(account, metrics, accountBalance) ==
    IF nodeEnv = "test" THEN {<<>>}
    ELSE
      { (IF leverage
         THEN << [accountId |-> account, alertType |-> "leverage_threshold",
                  severity |-> "high",
                  details |-> [value |-> metrics.leverage, threshold |-> 2]] >>
         ELSE <<>>)
        \o
        (IF loss
         THEN << [accountId |-> account, alertType |-> "loss_threshold",
                  severity |-> "medium",
                  details |-> [value |-> metrics.lossRatio,
                               threshold |-> <<1, 10>>]] >>
         ELSE <<>>)
        \o
        (IF half /\ positive
         THEN << [accountId |-> account, alertType |-> "exposure_threshold",
                  severity |-> "medium",
                  details |-> [value |-> metrics.exposure,
                               balance |-> accountBalance]] >>
         ELSE <<>>) :
        leverage \in Exceeds(metrics.leverage[1], 2 * metrics.leverage[2],
                             metrics.exact),
        loss \in ExceedsTenth(metrics.lossRatio[1], metrics.lossRatio[2],
                              metrics.exact),
        half \in Exceeds(2 * metrics.exposure, accountBalance, metrics.exact),
        positive \in Exceeds(metrics.exposure, 0, metrics.exact) }

\* detectAnomaly asking for four samples
detectAnomalyFromFour(txs) ==
    IF Cardinality(txs) < MinAnomalySamples - 1 THEN {"undefined"}
    ELSE {"below_threshold", "anomalous"}

\* detectAnomaly: no score below five samples; otherwise the randomized
\* forest's score is either below the threshold or not
detectAnomaly(txs) ==
    IF Cardinality(txs) < MinAnomalySamples THEN {"undefined"}
    ELSE {"below_threshold", "anomalous"}

AnomalyAlert(account, score) ==
    IF score = "anomalous" /\ nodeEnv # "test"
    THEN << [accountId |-> account, alertType |-> "anomaly_detection",
             severity |-> "high", details |-> [score |-> score]] >>
    ELSE <<>>

RECURSIVE Pow10(_)
Pow10(d) == IF d = 0 THEN 1 ELSE 10 * Pow10(d - 1)

\* <<(j * r) \div den, (j * r) % den>> for r < den, by adding r up j times
RECURSIVE Times(_, _, _)
Times(j, r, den) ==
    IF j = 0 THEN <<0, 0>>
    ELSE LET before == Times(j - 1, r, den)
             sum == before[2] + r
         IN  IF sum >= den THEN <<before[1] + 1, sum - den>>
             ELSE <<before[1], sum>>

\* long division: the first d digits after the point of r / den, and the
\* remainder left after them
RECURSIVE Fraction(_, _, _)
Fraction(r, den, d) ==
    IF d = 0 THEN <<0, r>>
    ELSE LET before == Fraction(r, den, d - 1)
             digit == Times(10, before[2], den)
         IN  <<before[1] * 10 + digit[1], digit[2]>>

\* what a NUMERIC(p,d) column makes of the double num / den it is given:
\* <<whole part, the d digits after the point, d>>, rounded half away from
\* zero.  A double that carries rounding errors may lie on either side of
\* a half.
Numeric(ratio, d, exact) ==
    LET whole == ratio[1] \div ratio[2]
        digits == Fraction(ratio[1] % ratio[2], ratio[2], d)
        down == <<whole, digits[1], d>>
        up == IF digits[1] + 1 = Pow10(d) THEN <<whole + 1, 0, d>>
              ELSE <<whole, digits[1] + 1, d>>
    IN  IF 2 * digits[2] > ratio[2] THEN {up}
        ELSE IF 2 * digits[2] < ratio[2] THEN {down}
        ELSE IF exact THEN {up}
        ELSE {down, up}

\* insertRiskMetric tagging the row with the number of rows looked at
insertRiskMetricRowLimit(t, account, metrics, leverage, lossRatio) ==
    [id |-> <<local[t].n, account>>,
     account_id |-> account,
     exposure |-> metrics.exposure,
     leverage |-> leverage,
     loss_ratio |-> lossRatio,
     observation_window |-> WindowLimit,
     created_at |-> Now(t)]

\* insertRiskMetric: the row, given what the columns leverage NUMERIC(20,4)
\* and loss_ratio NUMERIC(10,6) made of the two ratios; exposure is a whole
\* number of ticks, which NUMERIC(20,4) keeps
insertRiskMetric(t, account, metrics, leverage, lossRatio) ==
    [id |-> <<local[t].n, account>>,
     account_id |-> account,
     exposure |-> metrics.exposure,
     leverage |-> leverage,
     loss_ratio |-> lossRatio,
     observation_window |-> OBSERVATION_WINDOW_DAYS,
     created_at |-> Now(t)]

\* the loss_ratio column rejects a value that, once rounded, is 10^4 or more
NumericOverflow(lossRatio) == lossRatio[1] >= LossRatioLimit

insertAnomalyEvent(t, account, txs) ==
    [id |-> <<local[t].n, account>>,
     account_id |-> account,
     transaction_id |->
        (CHOOSE x \in txs : \A y \in txs : y.created_at <= x.created_at).id,
     created_at |-> Now(t)]

\* lines 216-219: the call, and findAccountById
evaluateAccountRisk(t, account, field, next) ==
    IF account \notin Existing
    THEN /\ Throw(t, "InternalError")
         /\ UNCHANGED local
    ELSE /\ local' = [local EXCEPT ![t].risk =
                [NoRisk EXCEPT !.account = account, !.field = field,
                               !.next = next,
                               !.balance = VisibleBalance(t, account)]]
         /\ Goto(t, "risk_transactions")
         /\ UNCHANGED outcome

\* line 144
RiskSource(t) ==
    /\ pc[t] = "risk_source"
    /\ evaluateAccountRisk(t, req[t].sourceAccountId, "sourceRisk",
                           "risk_destination")
    /\ UNCHANGED <<bus, accounts, rsaKeyPair, auth, call, scene, db, ctl, req,
                   pend>>

\* line 145
RiskDestination(t) ==
    /\ pc[t] = "risk_destination"
    /\ evaluateAccountRisk(t, req[t].destinationAccountId, "destinationRisk",
                           "commit")
    /\ UNCHANGED <<bus, accounts, rsaKeyPair, auth, call, scene, db, ctl, req,
                   pend>>

\* line 221: listTransactionsForAccount(accountId, 200, client)
RiskListTransactions(t) ==
    /\ pc[t] = "risk_transactions"
    /\ \E rows \in listTransactionsForAccount(VisibleTransactions(t),
                            local[t].risk.account, WindowLimit) :
            local' = [local EXCEPT ![t].risk.transactions = rows]
    /\ Goto(t, "risk_metric")
    /\ UNCHANGED <<bus, accounts, rsaKeyPair, auth, call, scene, db, ctl, req,
                   pend, outcome>>

\* lines 222-235: computeMetrics and insertRiskMetric; checkThresholds then
\* raises its alerts one after the other
RiskInsertMetric(t) ==
    /\ pc[t] = "risk_metric"
    /\ LET k == local[t].risk
           metrics == computeMetrics(k.balance, k.transactions)
       IN  \E leverage \in Numeric(metrics.leverage, 4, metrics.exact) :
           \E lossRatio \in Numeric(metrics.lossRatio, 6, metrics.exact) :
           \E alerts \in checkThresholds(k.account, metrics, k.balance) :
                IF NumericOverflow(lossRatio)
                THEN /\ ServerError(t, "InternalError")
                     /\ UNCHANGED <<tables, clock>>
                ELSE /\ Insert(t, "risk_metrics",
                               insertRiskMetric(t, k.account, metrics,
                                                leverage, lossRatio))
                     /\ local' = [local EXCEPT ![t].risk.metrics = metrics,
                                               ![t].alerts = alerts,
                                               ![t].ret = "risk_anomaly"]
                     /\ Goto(t, "alerts")
                     /\ UNCHANGED <<lockOwner, outcome>>
    /\ UNCHANGED <<bus, accounts, rsaKeyPair, auth, call, scene, balance,
                   counts, req>>

\* lines 236-241: detectAnomaly, which inserts the anomaly event before it
\* raises its alert, and the value evaluateAccountRisk returns
RiskDetectAnomaly(t) ==
    /\ pc[t] = "risk_anomaly"
    /\ LET k == local[t].risk
       IN  \E score \in detectAnomaly(k.transactions) :
            /\ IF score = "anomalous"
               THEN Insert(t, "risk_anomalies",
                           insertAnomalyEvent(t, k.account, k.transactions))
               ELSE UNCHANGED <<pend, tables, clock>>
            /\ local' = [local EXCEPT
                    ![t][k.field] = [exposure |-> k.metrics.exposure,
                                     leverage |-> k.metrics.leverage,
                                     lossRatio |-> k.metrics.lossRatio,
                                     anomalyScore |-> score],
                    ![t].alerts = AnomalyAlert(k.account, score),
                    ![t].ret = k.next,
                    ![t].risk = NoRisk]
    /\ Goto(t, "alerts")
    /\ UNCHANGED <<bus, accounts, rsaKeyPair, auth, call, scene, held, counts,
                   req, outcome>>

----------------------------------------------------------------------------
(* Database.withTransaction: COMMIT, ROLLBACK *)

\* lines 147-153: what createTransfer returns to its caller
Returned(l) ==
    [NoLocal EXCEPT !.debit = l.debit, !.credit = l.credit,
                    !.compliance = l.compliance,
                    !.sourceRisk = l.sourceRisk,
                    !.destinationRisk = l.destinationRisk,
                    !.encryptedPayload = l.encryptedPayload]

\* COMMIT that leaves in transactions and audit_logs only the rows of this
\* transaction
CommitReplacingRows(t) ==
    /\ pc[t] = "commit"
    /\ balance' = [a \in AccountIds |-> balance[a] + pend[t].delta[a]]
    /\ transactions' = pend[t].transactions
    /\ audit_logs' = pend[t].audit_logs
    /\ compliance_checks' = compliance_checks \cup pend[t].compliance_checks
    /\ risk_metrics' = risk_metrics \cup pend[t].risk_metrics
    /\ risk_alerts' = risk_alerts \cup pend[t].risk_alerts
    /\ risk_anomalies' = risk_anomalies \cup pend[t].risk_anomalies
    /\ ReleaseLocks(t)
    /\ pend' = [pend EXCEPT ![t] = NoPend]
    /\ local' = [local EXCEPT ![t] = Returned(local[t])]
    /\ pc' = [pc EXCEPT ![t] = "done"]
    /\ outcome' = [outcome EXCEPT ![t] = "Committed"]
    /\ UNCHANGED <<bus, accounts, rsaKeyPair, auth, call, scene, ctl, req>>

\* COMMIT: the transaction's writes become the committed rows
Commit(t) ==
    /\ pc[t] = "commit"
    /\ balance' = [a \in AccountIds |-> balance[a] + pend[t].delta[a]]
    /\ transactions' = transactions \cup pend[t].transactions
    /\ audit_logs' = audit_logs \cup pend[t].audit_logs
    /\ compliance_checks' = compliance_checks \cup pend[t].compliance_checks
    /\ risk_metrics' = risk_metrics \cup pend[t].risk_metrics
    /\ risk_alerts' = risk_alerts \cup pend[t].risk_alerts
    /\ risk_anomalies' = risk_anomalies \cup pend[t].risk_anomalies
    /\ ReleaseLocks(t)
    /\ pend' = [pend EXCEPT ![t] = NoPend]
    /\ local' = [local EXCEPT ![t] = Returned(local[t])]
    /\ pc' = [pc EXCEPT ![t] = "done"]
    /\ outcome' = [outcome EXCEPT ![t] = "Committed"]
    /\ UNCHANGED <<bus, accounts, rsaKeyPair, auth, call, scene, ctl, req>>

\* the statements ran on the pool instead of the transaction's client: the
\* rows they inserted stay when the transaction is rolled back
RollbackKeepsRows(t) ==
    /\ pc[t] = "rollback"
    /\ transactions' = transactions \cup pend[t].transactions
    /\ ReleaseLocks(t)
    /\ pend' = [pend EXCEPT ![t] = NoPend]
    /\ local' = [local EXCEPT ![t] = NoLocal]
    /\ pc' = [pc EXCEPT ![t] = "done"]
    /\ UNCHANGED <<bus, accounts, rsaKeyPair, auth, call, scene, balance, audit_logs, compliance_checks, risk_metrics,
                   risk_alerts, risk_anomalies, ctl, req, outcome>>

\* ROLLBACK in the catch block: the transaction's writes are discarded, and
\* its row locks are freed if the transaction was still open
Rollback(t) ==
    /\ pc[t] = "rollback"
    /\ ReleaseLocks(t)
    /\ pend' = [pend EXCEPT ![t] = NoPend]
    /\ local' = [local EXCEPT ![t] = NoLocal]
    /\ pc' = [pc EXCEPT ![t] = "done"]
    /\ UNCHANGED <<bus, accounts, rsaKeyPair, auth, call, scene, balance, tables, ctl, req, outcome>>

InTransaction ==
    {"lock_source", "lock_destination", "check", "debit", "credit",
     "insert_debit", "insert_credit", "audit_fetch", "audit_insert", "kyc",
     "aml", "alerts", "publish", "connect", "xadd", "compliance_done", "risk_source",
     "risk_destination", "risk_transactions", "risk_metric", "risk_anomaly",
     "commit"}

\* the server fails a statement of the unit of work (COMMIT included), or
\* ends its session
Fail(t) ==
    /\ pc[t] \in InTransaction
    /\ ServerError(t, "InternalError")
    /\ UNCHANGED <<bus, accounts, rsaKeyPair, auth, call, scene, balance,
                   tables, ctl, req>>

\* the row a task's SELECT ... FOR UPDATE is waiting for, if it is waiting
WaitsFor(t) ==
    LET a == IF pc[t] = "lock_source" THEN req[t].sourceAccountId
             ELSE IF pc[t] = "lock_destination"
                  THEN req[t].destinationAccountId
                  ELSE "none"
    IN  IF a \in Existing /\ lockOwner[a] \notin {0, t} THEN {lockOwner[a]}
        ELSE {}

\* PostgreSQL's deadlock detector: of two transactions waiting for each
\* other's row, one gets an error; its transaction ends at the error and
\* its row locks are free for the other before its ROLLBACK arrives
DeadlockAbort(t) ==
    /\ \E u \in WaitsFor(t) : t \in WaitsFor(u)
    /\ ServerError(t, "DeadlockDetected")
    /\ UNCHANGED <<bus, accounts, rsaKeyPair, auth, call, scene, balance,
                   tables, ctl, req>>

\* the route handler sends the response (201 with the result, or the error
\* through next(error)); the worker is free again
Respond(t) ==
    /\ pc[t] = "done"
    /\ pc' = [pc EXCEPT ![t] = "idle"]
    /\ local' = [local EXCEPT ![t] = NoLocal]
    /\ req' = [req EXCEPT ![t] = NoRequest]
    /\ scene' = [scene EXCEPT ![t] = NoScene]
    /\ outcome' = [outcome EXCEPT ![t] = "none"]
    /\ UNCHANGED <<bus, accounts, rsaKeyPair, auth, call, db, ctl, pend>>

----------------------------------------------------------------------------
(* Funding from outside: UPDATE accounts SET balance = balance + $1, run   *)
(* as a statement of its own; it waits for a row lock like any UPDATE.     *)

Fund(a) ==
    /\ funds < MaxFunds
    /\ lockOwner[a] = 0
    /\ \E amount \in FundAmounts :
        /\ balance' = [balance EXCEPT ![a] = @ + amount]
        /\ funded' = funded + amount
    /\ funds' = funds + 1
    /\ UNCHANGED <<bus, accounts, rsaKeyPair, auth, call, scene, lockOwner, tables, nodeEnv, clock, started, pc, req, local,
                   pend, outcome>>

----------------------------------------------------------------------------
(* POST /accounts *)

\* who asks for an account and for which user ("none": no userId in the body)
AccountRequests ==
    { [requester |-> [id |-> "u1", role |-> "client"], userId |-> "u2"],
      [requester |-> [id |-> "root", role |-> "admin"], userId |-> "u2"] }

\* createAccountForUser, then createAccount: INSERT INTO accounts on the
\* pool; the row gets a fresh id and the balance 0
createAccountForUser ==
    /\ \E r \in AccountRequests : \E id \in NewAccountIds \ Existing :
        IF /\ r.requester.role # "admin"
           /\ r.userId # "none"
           /\ r.requester.id # r.userId
        THEN UNCHANGED accounts
        ELSE accounts' = accounts \cup
                {AccountRow(id, IF r.userId = "none" THEN r.requester.id
                                ELSE r.userId, "USD")}
    /\ UNCHANGED <<bus, rsaKeyPair, auth, call, scene, balance, lockOwner,
                   tables, ctl, pc, req, local, pend, outcome>>

----------------------------------------------------------------------------
Next ==
    \/ \E t \in Tasks : Start(t)
    \/ \E t \in Tasks : Begin(t)
    \/ \E t \in Tasks : LockSource(t)
    \/ \E t \in Tasks : LockDestination(t)
    \/ \E t \in Tasks : Check(t)
    \/ \E t \in Tasks : Debit(t)
    \/ \E t \in Tasks : Credit(t)
    \/ \E t \in Tasks : InsertDebit(t)
    \/ \E t \in Tasks : InsertCredit(t)
    \/ \E t \in Tasks : AuditFetch(t)
    \/ \E t \in Tasks : AuditInsert(t)
    \/ \E t \in Tasks : Kyc(t)
    \/ \E t \in Tasks : Aml(t)
    \/ \E t \in Tasks : ComplianceDone(t)
    \/ \E t \in Tasks : RaiseAlert(t)
    \/ \E t \in Tasks : Publish(t)
    \/ \E t \in Tasks : Connect(t)
    \/ \E t \in Tasks : xAdd(t)
    \/ \E t \in Tasks : AlertsDone(t)
    \/ \E t \in Tasks : RiskSource(t)
    \/ \E t \in Tasks : RiskDestination(t)
    \/ \E t \in Tasks : RiskListTransactions(t)
    \/ \E t \in Tasks : RiskInsertMetric(t)
    \/ \E t \in Tasks : RiskDetectAnomaly(t)
    \/ \E t \in Tasks : Commit(t)
    \/ \E t \in Tasks : Rollback(t)
    \/ \E t \in Tasks : Fail(t)
    \/ \E t \in Tasks : DeadlockAbort(t)
    \/ \E t \in Tasks : Respond(t)
    \/ \E a \in FundedIds : Fund(a)
    \/ createAccountForUser

Spec == Init /\ [][Next]_vars

----------------------------------------------------------------------------------------------------------------------------------------
(* The audit chain under transfers that share no account: a ledger with    *)
(* four accounts, two of them funded, and a transfer between each pair.    *)
(* Such transfers never wait for each other's row locks.                   *)

FourAccounts ==
    SeedAccounts \cup {AccountRow("C", "u3", "USD"), AccountRow("D", "u4", "USD")}

AuditRequests ==
    { [sourceAccountId |-> "A", destinationAccountId |-> "B",
       amount |-> Halves(250), currency |-> "USD",
       memo |-> <<"r", "e", "n", "t">>,
       requester |-> [id |-> "u1", role |-> "client"]],
      [sourceAccountId |-> "C", destinationAccountId |-> "D",
       amount |-> Halves(250), currency |-> "USD",
       memo |-> <<"r", "e", "n", "t">>,
       requester |-> [id |-> "u3", role |-> "client"]] }

AuditInit ==
    /\ Configured
    /\ Quiet
    /\ call = NoCall
    /\ accounts = FourAccounts
    /\ balance = [a \in AccountIds |->
                    IF a \in {"A", "C"} THEN 1000 * TicksPerUnit ELSE 0]
    /\ transactions = {}

\* POST /transactions/transfer with one of the two requests
StartDisjoint(t) == \E r \in AuditRequests : createTransfer(t, r)

AuditNext ==
    \/ \E t \in Tasks : StartDisjoint(t)
    \/ \E t \in Tasks : Begin(t)
    \/ \E t \in Tasks : LockSource(t)
    \/ \E t \in Tasks : LockDestination(t)
    \/ \E t \in Tasks : Check(t)
    \/ \E t \in Tasks : Debit(t)
    \/ \E t \in Tasks : Credit(t)
    \/ \E t \in Tasks : InsertDebit(t)
    \/ \E t \in Tasks : InsertCredit(t)
    \/ \E t \in Tasks : AuditFetch(t)
    \/ \E t \in Tasks : AuditInsert(t)
    \/ \E t \in Tasks : Kyc(t)
    \/ \E t \in Tasks : Aml(t)
    \/ \E t \in Tasks : ComplianceDone(t)
    \/ \E t \in Tasks : RaiseAlert(t)
    \/ \E t \in Tasks : Publish(t)
    \/ \E t \in Tasks : Connect(t)
    \/ \E t \in Tasks : xAdd(t)
    \/ \E t \in Tasks : AlertsDone(t)
    \/ \E t \in Tasks : RiskSource(t)
    \/ \E t \in Tasks : RiskDestination(t)
    \/ \E t \in Tasks : RiskListTransactions(t)
    \/ \E t \in Tasks : RiskInsertMetric(t)
    \/ \E t \in Tasks : RiskDetectAnomaly(t)
    \/ \E t \in Tasks : Commit(t)
    \/ \E t \in Tasks : Rollback(t)
    \/ \E t \in Tasks : Fail(t)
    \/ \E t \in Tasks : Respond(t)

AuditSpec == AuditInit /\ [][AuditNext]_vars

-----------------------------------------------------------------------------
(* simulateAml on amounts around the threshold and on memos with and       *)
(* without the words: transfers of one (amount, memo) pair out of an       *)
(* account that holds 100000.                                              *)

\* amounts around the threshold, in half ticks
AmlAmounts ==
    {1, Halves(250), Halves(AML_THRESHOLD) - 1, Halves(AML_THRESHOLD),
     Halves(AML_THRESHOLD) + 1, Halves(60000), Halves(49999)}

AmlMemos ==
    { <<>>,
      <<"r", "e", "n", "t">>,
      <<"C", "r", "y", "p", "t", "o">>,
      <<"c", "r", "y", "p", "t">>,
      <<"c", "r", "y", "p", " ", "t", "o">>,
      <<"O", "F", "F", "S", "H", "O", "R", "E">>,
      <<"o", "f", "f", "s", "h", "o", "r">>,
      <<"S", "h", "e", "l", "l">>,
      <<"s", "h", "e", "l">>,
      <<"s", "e", "a", "s", "h", "e", "l", "l", "s">>,
      <<"h", "a", "w", "a", "l", "a">>,
      <<"H", "a", "W", "a", "L", "a">>,
      <<"h", "a", "w", "a", "l">>,
      <<"m", "y", " ", "c", "r", "y", "p", "t", "o">>,
      <<"r", "e", "n", "t", " ", "s", "h", "e", "l", "l">> }

\* every amount with three of the memos, and every memo with two of the
\* amounts
AmlPairs ==
    (AmlAmounts \X {<<>>, <<"r", "e", "n", "t">>,
                    <<"C", "r", "y", "p", "t", "o">>})
    \cup ({1, Halves(250)} \X AmlMemos)

AmlRequest ==
    [sourceAccountId |-> "A", destinationAccountId |-> "B",
     amount |-> call.amount, currency |-> "USD", memo |-> call.memo,
     requester |-> [id |-> "u1", role |-> "client"]]

AmlInit ==
    /\ Configured
    /\ Quiet
    /\ accounts = SeedAccounts
    /\ balance = [a \in AccountIds |->
                    IF a = "A" THEN 2 * AML_THRESHOLD * TicksPerUnit ELSE 0]
    /\ transactions = {}
    /\ \E p \in AmlPairs :
            call = [fn |-> "simulateAml", amount |-> p[1], memo |-> p[2]]

\* POST /transactions/transfer with the pair
StartAml(t) == createTransfer(t, AmlRequest)

AmlNext ==
    \/ \E t \in Tasks : StartAml(t)
    \/ \E t \in Tasks : Begin(t)
    \/ \E t \in Tasks : LockSource(t)
    \/ \E t \in Tasks : LockDestination(t)
    \/ \E t \in Tasks : Check(t)
    \/ \E t \in Tasks : Debit(t)
    \/ \E t \in Tasks : Credit(t)
    \/ \E t \in Tasks : InsertDebit(t)
    \/ \E t \in Tasks : InsertCredit(t)
    \/ \E t \in Tasks : AuditFetch(t)
    \/ \E t \in Tasks : AuditInsert(t)
    \/ \E t \in Tasks : Kyc(t)
    \/ \E t \in Tasks : Aml(t)
    \/ \E t \in Tasks : ComplianceDone(t)
    \/ \E t \in Tasks : RaiseAlert(t)
    \/ \E t \in Tasks : Publish(t)
    \/ \E t \in Tasks : Connect(t)
    \/ \E t \in Tasks : xAdd(t)
    \/ \E t \in Tasks : AlertsDone(t)
    \/ \E t \in Tasks : RiskSource(t)
    \/ \E t \in Tasks : RiskDestination(t)
    \/ \E t \in Tasks : RiskListTransactions(t)
    \/ \E t \in Tasks : RiskInsertMetric(t)
    \/ \E t \in Tasks : RiskDetectAnomaly(t)
    \/ \E t \in Tasks : Commit(t)
    \/ \E t \in Tasks : Rollback(t)
    \/ \E t \in Tasks : Fail(t)
    \/ \E t \in Tasks : Respond(t)

AmlSpec == AmlInit /\ [][AmlNext]_vars

-----------------------------------------------------------------------------
(* encryptPayload and decryptPayload called on their own *)

ContentKeys == {[random |-> 1], [random |-> 2]}

\* the payloads createTransfer encrypts, with and without a memo: those of
\* the requests that pass its checks of lines 48-55
CryptoPayloads ==
    {[payloadForEncryption(r) EXCEPT !.memo = m] :
        r \in {q \in Requests : /\ q.sourceAccountId = "A"
                                 /\ q.destinationAccountId = "B"
                                 /\ ~NumberIsNaN(q.amount)
                                 /\ q.amount > 0},
        m \in Memos \cup {Undefined}}

\* env.vault.addr and env.vault.token are set or not; the call has its payload
CryptoInit ==
    /\ Started
    /\ \E p \in CryptoPayloads : \E configured \in BOOLEAN :
            call = [fn |-> "encryptPayload", payload |-> p,
                    vault |-> configured]

\* what the transit service may answer: nothing is asked of one that is
\* not configured
Answers == IF call.vault THEN VaultResponses ELSE {"ok"}

\* encryptPayload(payload)
EncryptPayloadCall ==
    /\ call.fn = "encryptPayload"
    /\ IF ~rsaKeyPair
       THEN call' = [fn |-> "encrypt thrown", payload |-> call.payload,
                     vault |-> call.vault]
       ELSE \E aesKey \in ContentKeys : \E response \in Answers :
            LET wrap == encryptWithVault(aesKey, call.vault, response)
            IN  call' =
                  IF IsThrown(wrap)
                  THEN [fn |-> "encrypt thrown", payload |-> call.payload,
                        vault |-> call.vault]
                  ELSE [fn |-> "decryptPayload", payload |-> call.payload,
                        vault |-> call.vault,
                        envelope |-> Envelope(call.payload, aesKey,
                                              <<"iv", aesKey.random>>, wrap)]
    /\ UNCHANGED <<scene, db, ctl, bus, accounts, rsaKeyPair, auth, pc, req, local, pend,
                   outcome>>

\* decryptPayload(envelope)
DecryptPayloadCall ==
    /\ call.fn = "decryptPayload"
    /\ \E response \in Answers :
       \E otherKey \in ContentKeys \ {privateDecrypt(call.envelope.encryptedKey)} :
            LET out == decryptPayload(call.envelope, call.vault, response,
                                      otherKey)
            IN  call' = [fn |-> IF out.ok THEN "returned"
                                ELSE "decrypt thrown",
                         payload |-> call.payload, vault |-> call.vault,
                         envelope |-> call.envelope,
                         response |-> response, out |-> out]
    /\ UNCHANGED <<scene, db, ctl, bus, accounts, rsaKeyPair, auth, pc, req, local, pend,
                   outcome>>

CryptoNext == EncryptPayloadCall \/ DecryptPayloadCall

CryptoSpec == CryptoInit /\ [][CryptoNext]_vars

-----------------------------------------------------------------------------
(* evaluateAccountRisk run in a unit of work of its own, on an account with *)
(* a history of transactions                                                *)

MaxHistory == 6         \* transactions of the account before the evaluation
MaxBeyond == 2          \* rows of a long history older than the 200th
MaxEvaluations == 1     \* evaluations in one behaviour

HistoryBalances == {0, TicksPerUnit \div 2, 100 * TicksPerUnit,
                    5000 * TicksPerUnit}

\* a row of the account's history, as an earlier transfer of `units` at
\* time `at` left it
StoredRow(i, direction, units, at) ==
    [id |-> <<0 - i, direction>>,
     account_id |-> "A",
     counterparty_account_id |-> "B",
     amount |-> units * TicksPerUnit,
     currency |-> "USD",
     direction |-> direction,
     memo |-> <<"r", "e", "n", "t">>,
     encrypted_payload |-> <<>>,
     created_at |-> at]

\* the i-th row of a short history: a transfer of 100 * i, i ticks ago
HistoryRow(i, direction) == StoredRow(i, direction, 100 * i, 0 - i)

\* the i-th row of a history longer than the window of evaluateAccountRisk.
\* The rows before the 200th move one unit each, debits and credits in
\* turn; the 200th and the older rows move hundreds, in directions the
\* history chooses, and with `tie' they were all written in the same
\* instant, so that the window's limit cuts through them.
LongRow(i, directions, tie) ==
    IF i < WindowLimit
    THEN StoredRow(i, IF i % 2 = 1 THEN "debit" ELSE "credit", 1, 0 - i)
    ELSE StoredRow(i, directions[i], 100 * (i - WindowLimit + 2),
                   IF tie THEN 0 - WindowLimit ELSE 0 - i)

\* the histories evaluateAccountRisk is run on
Histories ==
    { {HistoryRow(i, directions[i]) : i \in 1..k} :
        <<k, directions>> \in
            UNION { {k} \X [1..k -> {"debit", "credit"}] :
                        k \in 0..MaxHistory } }
    \cup
    { {LongRow(i, h[2], h[3]) : i \in 1..WindowLimit + h[1]} :
        h \in UNION { {k} \X [WindowLimit..WindowLimit + k ->
                                    {"debit", "credit"}] \X BOOLEAN :
                        k \in 1..MaxBeyond } }

RiskInit ==
    /\ Configured
    /\ Quiet
    /\ accounts = SeedAccounts
    /\ call = NoCall
    /\ transactions \in Histories
    /\ \E b \in HistoryBalances :
            balance = [a \in AccountIds |-> IF a = "A" THEN b ELSE 0]

\* BEGIN, then the call of evaluateAccountRisk(accountId, client)
EvaluateUnit(t) ==
    /\ pc[t] = "idle"
    /\ started < MaxEvaluations
    /\ started' = started + 1
    /\ clock' = clock + 1
    /\ local' = [local EXCEPT ![t].n = started + 1, ![t].start = clock + 1]
    /\ req' = [req EXCEPT ![t] = [sourceAccountId |-> "none",
                                  destinationAccountId |-> "A"]]
    /\ pc' = [pc EXCEPT ![t] = "risk_destination"]
    /\ outcome' = [outcome EXCEPT ![t] = "running"]
    /\ UNCHANGED <<bus, accounts, rsaKeyPair, auth, call, scene, db, nodeEnv, funds, funded,
                   pend>>

RiskNext ==
    \/ \E t \in Tasks : EvaluateUnit(t)
    \/ \E t \in Tasks : RiskDestination(t)
    \/ \E t \in Tasks : RiskListTransactions(t)
    \/ \E t \in Tasks : RiskInsertMetric(t)
    \/ \E t \in Tasks : RiskDetectAnomaly(t)
    \/ \E t \in Tasks : RaiseAlert(t)
    \/ \E t \in Tasks : AuditFetch(t)
    \/ \E t \in Tasks : AuditInsert(t)
    \/ \E t \in Tasks : Publish(t)
    \/ \E t \in Tasks : Connect(t)
    \/ \E t \in Tasks : xAdd(t)
    \/ \E t \in Tasks : AlertsDone(t)
    \/ \E t \in Tasks : Commit(t)
    \/ \E t \in Tasks : Rollback(t)
    \/ \E t \in Tasks : Fail(t)
    \/ \E t \in Tasks : Respond(t)

RiskSpec == RiskInit /\ [][RiskNext]_vars

-----------------------------------------------------------------------------
(* utils/isolationForest: IsolationForest.fit and score.  Numbers are kept  *)
(* in thousandths.  Of a fitted tree only the leaf the scored sample ends   *)
(* in matters: its depth and the number of rows it holds.                   *)

MaxSubsample == 6       \* subsampleSize given to the constructor
MaxData == 6            \* rows given to fit
MaxTrees == 2           \* treeCount given to the constructor
MaxDimension == 1       \* numbers in a row given to fit
MaxDoublings == 10      \* powers of two above 2^10 are kept as 2^10

Milli == 1000
EulerMilli == 577       \* 0.5772156649

\* Math.log(n) for n = 1..7 and 2^(j/16) for j = 0..15, in thousandths
LnMilli == <<0, 693, 1099, 1386, 1609, 1792, 1946>>
Pow2Sixteenths == <<1000, 1044, 1091, 1139, 1189, 1242, 1297, 1354, 1414, 1477, 1542, 1610, 1682, 1756, 1834, 1915>>

\* averagePathLength(n)
averagePathLength(n) ==
    IF n <= 1 THEN 0
    ELSE 2 * (LnMilli[n - 1] + EulerMilli) - (2 * (n - 1) * Milli) \div n

\* Math.ceil(Math.log2(subsampleSize)); no depth is below a limit of
\* -Infinity, which 0 stands for
heightLimit(subsampleSize) ==
    IF subsampleSize <= 1 THEN 0
    ELSE CHOOSE h \in 1..MaxSubsample :
            2^h >= subsampleSize /\ 2^(h - 1) < subsampleSize

\* Math.pow(2, x) for x in thousandths
Pow2(x) ==
    LET k == x \div Milli
        base == Pow2Sixteenths[((x % Milli) * 16) \div Milli + 1]
    IN  IF k >= 0
        THEN base * 2^(IF k > MaxDoublings THEN MaxDoublings ELSE k)
        ELSE IF 0 - k > 30 THEN 0 ELSE base \div 2^(0 - k)

\* line 227 with the sign of the exponent lost
NormalizedInverted(path, c) ==
    Pow2((path * Milli) \div (IF c = 0 THEN Milli ELSE c))

\* line 227: Math.pow(2, -path / (c || 1))
Normalized(path, c) ==
    Pow2((0 - path * Milli) \div (IF c = 0 THEN Milli ELSE c))

\* pathLength(tree, sample) for a sample that ends in the given leaf
pathLength(leaf) == leaf.depth * Milli + averagePathLength(leaf.size)

RECURSIVE SumPaths(_)
SumPaths(leaves) ==
    IF leaves = <<>> THEN 0
    ELSE pathLength(Head(leaves)) + SumPaths(Tail(leaves))

\* IsolationForest.score
score(leaves, subsampleSize) ==
    IF Len(leaves) = 0 THEN 0
    ELSE Normalized(SumPaths(leaves) \div Len(leaves),
                    averagePathLength(subsampleSize))

\* the leaves buildTree can make for a sample of m rows of the given
\* dimension: the root itself, or a leaf of 1 to m rows below a chain of
\* splits; rows without an attribute are never split
Leaves(m, limit, dimension) ==
    {leaf \in [depth : 0..limit, size : 0..m] :
        /\ leaf.depth = 0 => leaf.size = m
        /\ leaf.depth >= 1 =>
                (dimension > 0 /\ m >= 2 /\ leaf.size >= 1)}

\* new IsolationForest(treeCount, subsampleSize), before fit(data); the
\* rows of data have data[0].length numbers each
ForestInit ==
    /\ Started
    /\ \E treeCount \in 0..MaxTrees : \E subsampleSize \in 0..MaxSubsample :
       \E rows \in 0..MaxData :
       \E dimension \in (IF rows = 0 THEN {0} ELSE 0..MaxDimension) :
            call = [fn |-> "fit", treeCount |-> treeCount,
                    subsampleSize |-> subsampleSize, rows |-> rows,
                    dimension |-> dimension, trees |-> <<>>]

\* randomSample: all rows, or subsampleSize of them
SampleSize == IF call.rows <= call.subsampleSize THEN call.rows
              ELSE call.subsampleSize

\* fit lines 206-213: the next tree is built
BuildTree ==
    /\ call.fn = "fit"
    /\ call.rows > 0
    /\ Len(call.trees) < call.treeCount
    /\ \E leaf \in Leaves(SampleSize, heightLimit(call.subsampleSize),
                          call.dimension) :
            call' = [call EXCEPT !.trees = Append(@, leaf)]
    /\ UNCHANGED <<scene, db, ctl, bus, accounts, rsaKeyPair, auth, pc, req, local, pend,
                   outcome>>

\* fit returns: at once without rows (lines 201-204), else after the last
\* tree, and without a tree when the rows are empty (lines 215-217)
FitReturn ==
    /\ call.fn = "fit"
    /\ call.rows = 0 \/ Len(call.trees) = call.treeCount
    /\ call' = [call EXCEPT !.fn = "fitted",
                            !.trees = IF call.rows = 0 \/ call.dimension = 0
                                      THEN <<>> ELSE @]
    /\ UNCHANGED <<scene, db, ctl, bus, accounts, rsaKeyPair, auth, pc, req, local, pend,
                   outcome>>

\* score(sample) on the fitted forest
Score ==
    /\ call.fn = "fitted"
    /\ call' = [fn |-> "scored", treeCount |-> call.treeCount,
                subsampleSize |-> call.subsampleSize, rows |-> call.rows,
                dimension |-> call.dimension, trees |-> call.trees,
                score |-> score(call.trees, call.subsampleSize)]
    /\ UNCHANGED <<scene, db, ctl, bus, accounts, rsaKeyPair, auth, pc, req, local, pend,
                   outcome>>

ForestNext == BuildTree \/ FitReturn \/ Score

ForestSpec == ForestInit /\ [][ForestNext]_vars

-----------------------------------------------------------------------------
(* riskRepository.listRecentAlerts on a table of alerts raised earlier.     *)

MaxAlerts == 3          \* rows of risk_alerts
MaxListLimit == 3       \* the limit asked for
MaxAlertTime == 2       \* distinct trigger times

Severities == {"low", "medium", "high", "critical"}

\* a committed row of risk_alerts
StoredAlert(alertType, severity, at) ==
    [id |-> <<at, alertType, "A">>, account_id |-> "A",
     alert_type |-> alertType, severity |-> severity, details |-> <<>>,
     triggered_at |-> at]

StoredAlerts ==
    {StoredAlert(alertType, severity, at) :
        alertType \in {"aml_flag", "leverage_threshold"},
        severity \in Severities, at \in 1..MaxAlertTime}

\* the ranks in the alphabetical order of the severities
SeverityRankAlphabetical(severity) ==
    CASE severity = "medium" -> 4
      [] severity = "low" -> 3
      [] severity = "high" -> 2
      [] severity = "critical" -> 1
      [] OTHER -> 0

\* CASE severity WHEN 'critical' THEN 4 ... ELSE 0 END
SeverityRank(severity) ==
    CASE severity = "critical" -> 4
      [] severity = "high" -> 3
      [] severity = "medium" -> 2
      [] severity = "low" -> 1
      [] OTHER -> 0

\* ORDER BY rank DESC, triggered_at DESC: row a may come before row b
OrderedBefore(a, b) ==
    \/ SeverityRank(a.severity) > SeverityRank(b.severity)
    \/ /\ SeverityRank(a.severity) = SeverityRank(b.severity)
       /\ a.triggered_at >= b.triggered_at

Smaller(a, b) == IF a < b THEN a ELSE b

\* the results the SELECT may give: the first rows of the table in the
\* order asked for, rows that tie in any order
SelectRecentAlerts(table, limit) ==
    {rows \in [1..Smaller(limit, Cardinality(table)) -> table] :
        /\ \A i, j \in DOMAIN rows : i < j =>
                rows[i] # rows[j] /\ OrderedBefore(rows[i], rows[j])
        /\ \A i \in DOMAIN rows :
           \A left \in table \ {rows[j] : j \in DOMAIN rows} :
                OrderedBefore(rows[i], left)}

AlertListInit ==
    /\ Configured
    /\ Idle
    /\ accounts = SeedAccounts
    /\ balance = [a \in AccountIds |-> 0]
    /\ transactions = {}
    /\ audit_logs = {}
    /\ compliance_checks = {}
    /\ risk_metrics = {}
    /\ risk_anomalies = {}
    /\ risk_alerts \in {table \in SUBSET StoredAlerts :
                            Cardinality(table) <= MaxAlerts}
    /\ \E limit \in 0..MaxListLimit :
            call = [fn |-> "listRecentAlerts", limit |-> limit]

\* listRecentAlerts(limit)
ListRecentAlerts ==
    /\ call.fn = "listRecentAlerts"
    /\ \E rows \in SelectRecentAlerts(risk_alerts, call.limit) :
            call' = [fn |-> "listed", limit |-> call.limit, rows |-> rows]
    /\ UNCHANGED <<scene, db, ctl, bus, accounts, rsaKeyPair, auth, pc, req, local, pend,
                   outcome>>

AlertListNext == ListRecentAlerts

AlertListSpec == AlertListInit /\ [][AlertListNext]_vars

-----------------------------------------------------------------------------
(* services/tokenService and the authentication requests of authService.    *)
(* Every statement runs on the pool, each a transaction of its own, so the  *)
(* statements of two requests interleave.  The clock advances with every    *)
(* statement.                                                               *)

MaxAuthRequests == 4    \* authentication requests received
MaxWaitDays == 9        \* days that pass without a request, in all

SecondsPerDay == 86400
\* env.jwtRefreshTtl, '7 days', in seconds: the clock counts seconds, and
\* a statement takes one
jwtRefreshTtl == 7 * SecondsPerDay
\* the days that pass between two requests
WaitDays == {6, 8}

\* the e-mail addresses the requests name: u1 has a row of users from the
\* start, u3 has none until it is registered
AuthUsers == {"u1", "u3"}
RegisterEmails == {"u3"}

NullTime == <<>>
NoToken == [sub |-> "none", tokenId |-> 0, signed |-> FALSE, exp |-> 0]

\* jwt.sign({ sub, role, tokenId }, env.jwtRefreshSecret,
\* { expiresIn: env.jwtRefreshTtl }) at the time `now'
RefreshToken(user, tokenId, now) ==
    [sub |-> user, tokenId |-> tokenId, signed |-> TRUE,
     exp |-> now + jwtRefreshTtl]

\* jwt.verify(token, env.jwtRefreshSecret) does not throw: the signature
\* is this server's and the token has not expired
jwtVerify(token, now) == token.signed /\ now < token.exp

\* tokens a client can present: the ones handed out, and ones that were
\* not signed by this server
Granted == {h.granted[1] : h \in {g \in responses : g.granted # <<>>}}

Presentable ==
    Granted \cup {[sub |-> "u1", tokenId |-> 1, signed |-> FALSE,
                   exp |-> 1 + jwtRefreshTtl]}

\* uuid()
NewTokenId == Cardinality(refresh_tokens) + 1

Answer(n, kind, user, presented, granted, began) ==
    [n |-> n, kind |-> kind, user |-> user, presented |-> presented,
     granted |-> granted, began |-> began, at |-> clock + 1]

\* generateTokens(user): sign the pair, INSERT INTO refresh_tokens, return
\* the pair
generateTokens(n, kind, user, presented, began) ==
    /\ refresh_tokens' = refresh_tokens \cup
            {[id |-> NewTokenId, user_id |-> user, token_id |-> NewTokenId,
              expires_at |-> clock + 1 + jwtRefreshTtl,
              revoked_at |-> NullTime, created_at |-> clock + 1]}
    /\ responses' = responses \cup
            {Answer(n, kind, user, presented,
                    <<RefreshToken(user, NewTokenId, clock + 1)>>, began)}

\* the request is refused: 401, or 409 for an e-mail address already
\* registered, or the error of a failed statement
Unauthorized(n, kind, user, presented, began) ==
    /\ responses' = responses \cup
            {Answer(n, kind, user, presented, <<>>, began)}
    /\ UNCHANGED refresh_tokens

\* revokeTokensForUser with the UPDATE not restricted to the user
revokeTokensForEveryUser(userId) ==
    {IF r.revoked_at = NullTime
     THEN [r EXCEPT !.revoked_at = <<clock + 1>>] ELSE r :
        r \in refresh_tokens}

\* revokeTokensForUser: UPDATE refresh_tokens SET revoked_at = NOW()
\* WHERE user_id = $1 AND revoked_at IS NULL
revokeTokensForUser(userId) ==
    {IF r.user_id = userId /\ r.revoked_at = NullTime
     THEN [r EXCEPT !.revoked_at = <<clock + 1>>] ELSE r :
        r \in refresh_tokens}

\* findUserByEmail, findUserById
findUser(id) == IF UserRow(id) \in users THEN UserRow(id) ELSE NoRow

\* the request task t goes on with after its first statement
AuthRequest(n, email, token, began) ==
    [sourceAccountId |-> "none", n |-> n, email |-> email, token |-> token,
     began |-> began]

TokenInit ==
    /\ Started
    /\ call = NoCall
    /\ nodeEnv = "production"
    /\ ~enableRedisStreams

\* days pass between two requests
DaysPass ==
    /\ \A t \in Tasks : pc[t] = "idle"
    /\ \E days \in WaitDays :
          /\ clock + days * SecondsPerDay <= MaxWaitDays * SecondsPerDay
          /\ clock' = clock + days * SecondsPerDay
    /\ UNCHANGED <<bus, accounts, rsaKeyPair, call, scene, db, nodeEnv, funds, funded,                   started, pc, req, local, pend, outcome, auth>>

\* registerUser lines 535-538: findUserByEmail, 409 for a known address
registerUser(t) ==
    /\ pc[t] = "idle"
    /\ started < MaxAuthRequests
    /\ started' = started + 1
    /\ clock' = clock + 1
    /\ \E email \in RegisterEmails :
          IF findUser(email) # NoRow
          THEN /\ Unauthorized(started + 1, "register", email, NoToken,
                               clock + 1)
               /\ UNCHANGED <<pc, req>>
          ELSE /\ pc' = [pc EXCEPT ![t] = "register_create"]
               /\ req' = [req EXCEPT ![t] =
                            AuthRequest(started + 1, email, NoToken,
                                        clock + 1)]
               /\ UNCHANGED <<refresh_tokens, responses>>
    /\ UNCHANGED <<bus, accounts, rsaKeyPair, call, scene, db, nodeEnv, funds, funded,                   local, pend, outcome, users>>

\* registerUser lines 540-541: hashPassword, createUser; the INSERT fails
\* on users.email UNIQUE when the address has been registered meanwhile
registerCreate(t) ==
    /\ pc[t] = "register_create"
    /\ clock' = clock + 1
    /\ IF findUser(req[t].email) # NoRow
       THEN /\ Unauthorized(req[t].n, "register", req[t].email, NoToken,
                            req[t].began)
            /\ pc' = [pc EXCEPT ![t] = "idle"]
            /\ req' = [req EXCEPT ![t] = NoRequest]
            /\ UNCHANGED users
       ELSE /\ users' = users \cup {UserRow(req[t].email)}
            /\ pc' = [pc EXCEPT ![t] = "register_issue"]
            /\ UNCHANGED <<req, refresh_tokens, responses>>
    /\ UNCHANGED <<bus, accounts, rsaKeyPair, call, scene, db, nodeEnv, funds, funded,                   started, local, pend, outcome>>

\* registerUser line 542: generateTokens
registerIssue(t) ==
    /\ pc[t] = "register_issue"
    /\ clock' = clock + 1
    /\ generateTokens(req[t].n, "register", req[t].email, NoToken,
                      req[t].began)
    /\ pc' = [pc EXCEPT ![t] = "idle"]
    /\ req' = [req EXCEPT ![t] = NoRequest]
    /\ UNCHANGED <<bus, accounts, rsaKeyPair, call, scene, db, nodeEnv, funds, funded,                   started, local, pend, outcome, users>>

\* loginUser lines 551-560: findUserByEmail, then the password matches or
\* not
loginUser(t) ==
    /\ pc[t] = "idle"
    /\ started < MaxAuthRequests
    /\ started' = started + 1
    /\ clock' = clock + 1
    /\ \E email \in AuthUsers : \E matches \in BOOLEAN :
          IF findUser(email) # NoRow /\ matches
          THEN /\ pc' = [pc EXCEPT ![t] = "login_issue"]
               /\ req' = [req EXCEPT ![t] =
                            AuthRequest(started + 1, email, NoToken,
                                        clock + 1)]
               /\ UNCHANGED <<refresh_tokens, responses>>
          ELSE /\ Unauthorized(started + 1, "login", email, NoToken,
                               clock + 1)
               /\ UNCHANGED <<pc, req>>
    /\ UNCHANGED <<bus, accounts, rsaKeyPair, call, scene, db, nodeEnv, funds, funded,                   local, pend, outcome, users>>

\* loginUser line 562: generateTokens
loginIssue(t) ==
    /\ pc[t] = "login_issue"
    /\ clock' = clock + 1
    /\ generateTokens(req[t].n, "login", req[t].email, NoToken,
                      req[t].began)
    /\ pc' = [pc EXCEPT ![t] = "idle"]
    /\ req' = [req EXCEPT ![t] = NoRequest]
    /\ UNCHANGED <<bus, accounts, rsaKeyPair, call, scene, db, nodeEnv, funds, funded,                   started, local, pend, outcome, users>>

\* logoutUser: revokeTokensForUser(userId)
logoutUser ==
    /\ started < MaxAuthRequests
    /\ started' = started + 1
    /\ clock' = clock + 1
    /\ \E user \in AuthUsers :
          /\ refresh_tokens' = revokeTokensForUser(user)
          /\ responses' = responses \cup
                {Answer(started + 1, "logout", user, NoToken, <<>>, clock + 1)}
    /\ UNCHANGED <<bus, accounts, rsaKeyPair, call, scene, db, nodeEnv, funds, funded,                   pc, req, local, pend, outcome, users>>

\* rotateRefreshToken lines 38-52: jwt.verify, then
\* SELECT id FROM refresh_tokens WHERE user_id = $1 AND token_id = $2
\* AND revoked_at IS NULL
rotateCheck(t) ==
    /\ pc[t] = "idle"
    /\ started < MaxAuthRequests
    /\ started' = started + 1
    /\ clock' = clock + 1
    /\ \E token \in Presentable :
          IF /\ jwtVerify(token, clock + 1)
             /\ \E r \in refresh_tokens : /\ r.user_id = token.sub
                                          /\ r.token_id = token.tokenId
                                          /\ r.revoked_at = NullTime
          THEN /\ pc' = [pc EXCEPT ![t] = "rotate_revoke"]
               /\ req' = [req EXCEPT ![t] =
                            AuthRequest(started + 1, token.sub, token,
                                        clock + 1)]
               /\ UNCHANGED <<refresh_tokens, responses>>
          ELSE /\ Unauthorized(started + 1, "refresh", token.sub, token,
                               clock + 1)
               /\ UNCHANGED <<pc, req>>
    /\ UNCHANGED <<bus, accounts, rsaKeyPair, call, scene, db, nodeEnv, funds, funded,                   local, pend, outcome, users>>

\* rotateRefreshToken lines 54-56:
\* UPDATE refresh_tokens SET revoked_at = NOW() WHERE token_id = $1
rotateRevoke(t) ==
    /\ pc[t] = "rotate_revoke"
    /\ clock' = clock + 1
    /\ refresh_tokens' =
            {IF r.token_id = req[t].token.tokenId
             THEN [r EXCEPT !.revoked_at = <<clock + 1>>] ELSE r :
                r \in refresh_tokens}
    /\ pc' = [pc EXCEPT ![t] = "rotate_user"]
    /\ UNCHANGED <<bus, accounts, rsaKeyPair, call, scene, db, nodeEnv, funds, funded,                   started, req, local, pend, outcome, responses, users>>

\* rotateRefreshToken lines 58-61: findUserById, null for a user that is
\* not there
rotateFindUser(t) ==
    /\ pc[t] = "rotate_user"
    /\ clock' = clock + 1
    /\ IF findUser(req[t].token.sub) = NoRow
       THEN /\ Unauthorized(req[t].n, "refresh", req[t].token.sub,
                            req[t].token, req[t].began)
            /\ pc' = [pc EXCEPT ![t] = "idle"]
            /\ req' = [req EXCEPT ![t] = NoRequest]
       ELSE /\ pc' = [pc EXCEPT ![t] = "rotate_issue"]
            /\ UNCHANGED <<req, refresh_tokens, responses>>
    /\ UNCHANGED <<bus, accounts, rsaKeyPair, call, scene, db, nodeEnv, funds, funded,                   started, local, pend, outcome, users>>

\* rotateRefreshToken lines 63-67: generateTokens
rotateIssue(t) ==
    /\ pc[t] = "rotate_issue"
    /\ clock' = clock + 1
    /\ generateTokens(req[t].n, "refresh", req[t].token.sub, req[t].token,
                      req[t].began)
    /\ pc' = [pc EXCEPT ![t] = "idle"]
    /\ req' = [req EXCEPT ![t] = NoRequest]
    /\ UNCHANGED <<bus, accounts, rsaKeyPair, call, scene, db, nodeEnv, funds, funded,                   started, local, pend, outcome, users>>

TokenNext ==
    \/ DaysPass
    \/ \E t \in Tasks : registerUser(t)
    \/ \E t \in Tasks : registerCreate(t)
    \/ \E t \in Tasks : registerIssue(t)
    \/ \E t \in Tasks : loginUser(t)
    \/ \E t \in Tasks : loginIssue(t)
    \/ logoutUser
    \/ \E t \in Tasks : rotateCheck(t)
    \/ \E t \in Tasks : rotateRevoke(t)
    \/ \E t \in Tasks : rotateFindUser(t)
    \/ \E t \in Tasks : rotateIssue(t)

TokenSpec == TokenInit /\ [][TokenNext]_vars

-----------------------------------------------------------------------------
(* The read routes GET /transactions/account/:accountId and                 *)
(* GET /risk/accounts/:accountId/metrics, on a database that holds          *)
(* transactions of account A and may hold no risk metrics for them yet      *)
(* (rows older than migration 0002).  The routes run their statements on    *)
(* the pool: what evaluateAccountRisk inserted stays when a later           *)
(* statement fails.                                                         *)

MaxAccessRequests == 2  \* requests received by the two routes
MaxAlertingRequests == 1    \* the same when nodeEnv is not "test"
MaxAccessHistory == 1   \* transactions of account A at the start

AccessRequesters ==
    { [id |-> "u1", role |-> "client"], [id |-> "u2", role |-> "client"],
      [id |-> "root", role |-> "admin"], [id |-> "aud", role |-> "auditor"] }

\* a snapshot stored by an earlier evaluation
StoredMetric ==
    [id |-> <<0, "A">>, account_id |-> "A", exposure |-> 0,
     leverage |-> <<0, 0, 4>>, loss_ratio |-> <<0, 0, 6>>,
     observation_window |-> OBSERVATION_WINDOW_DAYS, created_at |-> 0]

AccessBalances == {TicksPerUnit \div 2, 100 * TicksPerUnit}

AccessInit ==
    /\ Configured
    /\ accounts = SeedAccounts
    /\ rsaKeyPair
    /\ Idle
    /\ call = NoCall
    /\ audit_logs = {}
    /\ compliance_checks = {}
    /\ risk_alerts = {}
    /\ risk_anomalies = {}
    /\ \E k \in 0..MaxAccessHistory :
       \E directions \in [1..k -> {"debit", "credit"}] :
       \E b \in AccessBalances :
            /\ transactions = {HistoryRow(i, directions[i]) : i \in 1..k}
            /\ balance = [a \in AccountIds |-> IF a = "A" THEN b ELSE 0]
            /\ risk_metrics \in (IF k = 0 THEN {{}} ELSE {{}, {StoredMetric}})

\* every requester may view every account
MayViewAny(requester, ownerId) == TRUE

\* the negation of: req.user.role === "client" && req.user.id !== ownerId
MayView(requester, ownerId) ==
    ~(requester.role = "client" /\ requester.id # ownerId)

\* the request of a route, in the shape req[t] has
RouteRequest(route, requester, accountId) ==
    [sourceAccountId |-> "none", destinationAccountId |-> accountId,
     requester |-> requester, route |-> route]

\* fetchLatestMetricsForAccount
fetchLatestMetricsForAccount(accountId, limit) ==
    LET mine == {m \in risk_metrics : m.account_id = accountId}
    IN  IF Cardinality(mine) <= limit THEN mine
        ELSE CHOOSE W \in SUBSET mine :
                /\ Cardinality(W) = limit
                /\ \A x \in W, y \in mine \ W : x.created_at >= y.created_at

\* lines 211-219 of the metrics route
NormalizedMetric(metric) ==
    [id |-> metric.id, accountId |-> metric.account_id,
     exposure |-> metric.exposure, leverage |-> metric.leverage,
     lossRatio |-> metric.loss_ratio,
     observationWindow |-> metric.observation_window,
     createdAt |-> metric.created_at]

\* lines 199-208 of the metrics route
Snapshot(accountId, evaluation, now) ==
    [id |-> "null", accountId |-> accountId,
     exposure |-> evaluation.exposure, leverage |-> evaluation.leverage,
     lossRatio |-> evaluation.lossRatio,
     observationWindow |-> OBSERVATION_WINDOW_DAYS, createdAt |-> now]

\* the requests one behaviour serves
AccessBudget ==
    IF nodeEnv = "test" THEN MaxAccessRequests ELSE MaxAlertingRequests

\* res.json or next(error): the handler answers; `owner' is the row its
\* first statement read
Answered(t, r, status, served, owner) ==
    /\ pc' = [pc EXCEPT ![t] = "done"]
    /\ req' = [req EXCEPT ![t] = r]
    /\ outcome' = [outcome EXCEPT ![t] = status]
    /\ local' = [local EXCEPT ![t] =
            [NoLocal EXCEPT !.served = served, !.destinationAccount = owner]]

\* the handler goes on to its next statement, on the pool
Awaiting(t, r, label, owner) ==
    /\ pc' = [pc EXCEPT ![t] = label]
    /\ req' = [req EXCEPT ![t] = r]
    /\ outcome' = [outcome EXCEPT ![t] = "running"]
    /\ local' = [local EXCEPT ![t] =
            [NoLocal EXCEPT !.n = started + 1, !.client = FALSE,
                            !.destinationAccount = owner]]

\* SELECT user_id FROM accounts WHERE id = $1
OwnerRow(accountId) ==
    IF accountId \in Existing THEN [user_id |-> Owner[accountId]] ELSE NoRow

\* lines 34-47 of either route: the SELECT and the two checks made on its
\* result
SelectOwner(t, r, label) ==
    LET owner == OwnerRow(r.destinationAccountId)
    IN  IF owner = NoRow
        THEN Answered(t, r, "404", NoRow, owner)
        ELSE IF ~MayView(r.requester, owner.user_id)
        THEN Answered(t, r, "403", NoRow, owner)
        ELSE Awaiting(t, r, label, owner)

\* GET /transactions/account/:accountId up to its first statement
GetAccountTransactions(t) ==
    /\ pc[t] = "idle"
    /\ started < AccessBudget
    /\ started' = started + 1
    /\ \E requester \in AccessRequesters : \E accountId \in TransferIds :
        SelectOwner(t, RouteRequest("transactions", requester, accountId),
                    "route_list")
    /\ UNCHANGED <<bus, accounts, rsaKeyPair, auth, call, scene, db, nodeEnv,
                   clock, funds, funded, pend>>

\* lines 49-50 of the transactions route
RouteListTransactions(t) ==
    /\ pc[t] = "route_list"
    /\ \E rows \in listTransactionsForAccount(transactions,
                            req[t].destinationAccountId, 50) :
            Answered(t, req[t], "200", [rows |-> rows],
                     local[t].destinationAccount)
    /\ UNCHANGED <<bus, accounts, rsaKeyPair, auth, call, scene, db, ctl,
                   pend>>

\* GET /risk/accounts/:accountId/metrics up to its first statement
GetAccountMetrics(t) ==
    /\ pc[t] = "idle"
    /\ started < AccessBudget
    /\ started' = started + 1
    /\ \E requester \in AccessRequesters : \E accountId \in TransferIds :
        SelectOwner(t, RouteRequest("metrics", requester, accountId),
                    "route_metrics")
    /\ UNCHANGED <<bus, accounts, rsaKeyPair, auth, call, scene, db, nodeEnv,
                   clock, funds, funded, pend>>

\* line 192 and lines 211-221: the stored snapshots, if there are any
RouteFetchMetrics(t) ==
    /\ pc[t] = "route_metrics"
    /\ LET metrics == fetchLatestMetricsForAccount(
                            req[t].destinationAccountId, 10)
       IN  IF metrics # {}
           THEN Answered(t, req[t], "200",
                    [metrics |-> {NormalizedMetric(m) : m \in metrics},
                     latestEvaluation |->
                        NormalizedMetric(CHOOSE m \in metrics :
                            \A o \in metrics : o.created_at <= m.created_at)],
                    local[t].destinationAccount)
           ELSE /\ Goto(t, "route_transactions")
                /\ UNCHANGED <<req, local, outcome>>
    /\ UNCHANGED <<bus, accounts, rsaKeyPair, auth, call, scene, db, ctl,
                   pend>>

\* lines 194-199: no snapshot is stored; an account without transactions
\* is answered with an empty list, any other is evaluated
RouteCountTransactions(t) ==
    /\ pc[t] = "route_transactions"
    /\ \E rows \in listTransactionsForAccount(transactions,
                            req[t].destinationAccountId, 10) :
            IF rows = {}
            THEN Answered(t, req[t], "200",
                          [metrics |-> {}, latestEvaluation |-> NoRow],
                          local[t].destinationAccount)
            ELSE /\ Goto(t, "risk_destination")
                 /\ UNCHANGED <<req, local, outcome>>
    /\ UNCHANGED <<bus, accounts, rsaKeyPair, auth, call, scene, db, ctl,
                   pend>>

\* evaluateAccountRisk returned: the route answers with the snapshot
MetricsEvaluated(t) ==
    /\ pc[t] = "commit"
    /\ ~local[t].client
    /\ LET snapshot == Snapshot(req[t].destinationAccountId,
                                local[t].destinationRisk, clock)
       IN local' = [local EXCEPT ![t].served =
                        [metrics |-> {snapshot},
                         latestEvaluation |-> snapshot]]
    /\ pc' = [pc EXCEPT ![t] = "done"]
    /\ outcome' = [outcome EXCEPT ![t] = "200"]
    /\ UNCHANGED <<bus, accounts, rsaKeyPair, auth, call, scene, db, ctl, req,
                   pend>>

\* evaluateAccountRisk threw: next(error) answers 500; what its statements
\* inserted before stays
MetricsFailed(t) ==
    /\ pc[t] = "rollback"
    /\ ~local[t].client
    /\ pc' = [pc EXCEPT ![t] = "done"]
    /\ UNCHANGED <<bus, accounts, rsaKeyPair, auth, call, scene, db, ctl, req,
                   local, pend, outcome>>

AccessNext ==
    \/ \E t \in Tasks : GetAccountTransactions(t)
    \/ \E t \in Tasks : RouteListTransactions(t)
    \/ \E t \in Tasks : GetAccountMetrics(t)
    \/ \E t \in Tasks : RouteFetchMetrics(t)
    \/ \E t \in Tasks : RouteCountTransactions(t)
    \/ \E t \in Tasks : RiskDestination(t)
    \/ \E t \in Tasks : RiskListTransactions(t)
    \/ \E t \in Tasks : RiskInsertMetric(t)
    \/ \E t \in Tasks : RiskDetectAnomaly(t)
    \/ \E t \in Tasks : RaiseAlert(t)
    \/ \E t \in Tasks : AuditFetch(t)
    \/ \E t \in Tasks : AuditInsert(t)
    \/ \E t \in Tasks : Publish(t)
    \/ \E t \in Tasks : Connect(t)
    \/ \E t \in Tasks : xAdd(t)
    \/ \E t \in Tasks : AlertsDone(t)
    \/ \E t \in Tasks : MetricsEvaluated(t)
    \/ \E t \in Tasks : MetricsFailed(t)
    \/ \E t \in Tasks : Fail(t)
    \/ \E t \in Tasks : Respond(t)
    \/ createAccountForUser

AccessSpec == AccessInit /\ [][AccessNext]_vars

----------------------------------------------------------------------------
(* Database.withTransaction, statement by statement *)

MaxTxCalls == 2         \* calls of withTransaction in a row

\* what a handler can reject with
HandlerErrors == {"InsufficientFunds", "InternalError"}

\* a call of withTransaction that has not started: `issued' are the
\* statements sent on the client, `released' counts client.release(),
\* `caught' is the error the catch block holds, `thrown' the error the call
\* is about to reject with; `done' keeps how the earlier calls ended
withTransaction(n, done) ==
    [fn |-> "withTransaction", n |-> n, at |-> "connect", client |-> FALSE,
     issued |-> <<>>, released |-> 0, handler |-> "pending",
     result |-> "none", caught |-> "none", thrown |-> "none", done |-> done]

TxInit ==
    /\ Started
    /\ call = withTransaction(1, <<>>)

TxQuiet ==
    UNCHANGED <<scene, db, ctl, bus, accounts, rsaKeyPair, auth, pc, req, local, pend,
                outcome>>

\* line 28: pool.connect() is outside the try block
TxConnect ==
    /\ call.fn = "withTransaction"
    /\ call.at = "connect"
    /\ \/ call' = [call EXCEPT !.client = TRUE, !.at = "begin"]
       \/ call' = [call EXCEPT !.thrown = "ConnectError", !.at = "thrown"]
    /\ TxQuiet

\* line 30
TxBegin ==
    /\ call.fn = "withTransaction"
    /\ call.at = "begin"
    /\ \/ call' = [call EXCEPT !.issued = Append(@, "BEGIN"),
                               !.at = "handler"]
       \/ call' = [call EXCEPT !.issued = Append(@, "BEGIN"),
                               !.caught = "BeginError", !.at = "rollback"]
    /\ TxQuiet

\* line 31: the handler resolves or rejects
TxHandler ==
    /\ call.fn = "withTransaction"
    /\ call.at = "handler"
    /\ \/ call' = [call EXCEPT !.handler = "completed", !.result = "result",
                               !.at = "commit"]
       \/ \E error \in HandlerErrors :
            call' = [call EXCEPT !.handler = "failed", !.caught = error,
                                 !.at = "rollback"]
    /\ TxQuiet

\* lines 32-33
TxCommit ==
    /\ call.fn = "withTransaction"
    /\ call.at = "commit"
    /\ \/ call' = [call EXCEPT !.issued = Append(@, "COMMIT"),
                               !.at = "release"]
       \/ call' = [call EXCEPT !.issued = Append(@, "COMMIT"),
                               !.caught = "CommitError", !.at = "rollback"]
    /\ TxQuiet

\* lines 34-36: ROLLBACK is awaited inside the catch block, so its own
\* rejection leaves the block in place of `throw error'
TxRollback ==
    /\ call.fn = "withTransaction"
    /\ call.at = "rollback"
    /\ \/ call' = [call EXCEPT !.issued = Append(@, "ROLLBACK"),
                               !.thrown = call.caught, !.at = "release"]
       \/ call' = [call EXCEPT !.issued = Append(@, "ROLLBACK"),
                               !.thrown = "RollbackError", !.at = "release"]
    /\ TxQuiet

\* lines 37-39: the finally block, then the call resolves or rejects
TxRelease ==
    /\ call.fn = "withTransaction"
    /\ call.at = "release"
    /\ call' = [call EXCEPT !.released = @ + 1,
                            !.at = IF call.thrown = "none" THEN "returned"
                                   ELSE "thrown"]
    /\ TxQuiet

\* the next call of withTransaction
TxAgain ==
    /\ call.fn = "withTransaction"
    /\ call.at \in {"returned", "thrown"}
    /\ call.n < MaxTxCalls
    /\ call' = withTransaction(call.n + 1,
                               Append(call.done, <<call.at, call.thrown>>))
    /\ TxQuiet

TxNext ==
    \/ TxConnect
    \/ TxBegin
    \/ TxHandler
    \/ TxCommit
    \/ TxRollback
    \/ TxRelease
    \/ TxAgain

TxSpec == TxInit /\ [][TxNext]_vars

----------------------------------------------------------------------------
(* Properties of the ledger *)

\* a request that passes every check made before the balance check: both
\* accounts were there when it arrived, the requester may debit the source,
\* the currencies agree
Eligible(r, there) ==
    /\ r.sourceAccountId \in there
    /\ r.destinationAccountId \in there
    /\ r.sourceAccountId # r.destinationAccountId
    /\ r.amount # NaN /\ r.amount > 0
    /\ r.requester.role = "client" =>
            r.requester.id = Owner[r.sourceAccountId]
    /\ r.currency = AccountCurrency[r.sourceAccountId]
    /\ r.currency = AccountCurrency[r.destinationAccountId]

\* C1: the sum of the balances of all accounts is not changed by transfers:
\* in every committed state it is the total that was funded from outside.
C1_SumOfBalancesIsTheFunding == SumOver(Existing, balance) = funded

\* two requests that were in flight together, debit the same source, are
\* eligible, each fit the balance the source had when they arrived and
\* jointly exceed it, with no funding in the meantime; both have ended and
\* neither was hit by a failure of the infrastructure
Race(t, u) ==
    /\ t # u
    /\ pc[t] = "done" /\ pc[u] = "done"
    /\ u \in scene[t].peers \/ t \in scene[u].peers
    /\ Eligible(req[t], scene[t].existing)
    /\ Eligible(req[u], scene[u].existing)
    /\ req[t].sourceAccountId = req[u].sourceAccountId
    /\ scene[t].balance = scene[u].balance
    /\ scene[t].funds = funds /\ scene[u].funds = funds
    /\ req[t].amount <= HalvesPerTick * scene[t].balance
    /\ req[u].amount <= HalvesPerTick * scene[t].balance
    /\ req[t].amount + req[u].amount > HalvesPerTick * scene[t].balance
    /\ {outcome[t], outcome[u]} \cap {"InternalError", "DeadlockDetected"} = {}

\* C2: of two concurrent transfers debiting the same source whose amounts
\* each fit the balance and jointly exceed it, exactly one commits and the
\* other fails with InsufficientFundsError.
C2_ExactlyOneOfTwoDebitsCommits ==
    \A t \in Tasks : \A u \in Tasks :
        Race(t, u) =>
            {outcome[t], outcome[u]} = {"Committed", "InsufficientFundsError"}

\* C3: in every committed state every account balance is at least zero.
C3_BalancesNeverNegative == \A a \in Existing : balance[a] >= 0

\* a transfer has committed and emptied its source account
C3_Witness ==
    \E t \in Tasks :
        /\ outcome[t] = "Committed"
        /\ balance[req[t].sourceAccountId] = 0
        /\ funded > 0

\* the step commits task t's unit of work
Commits(t) == pc[t] = "commit" /\ pc'[t] = "done" /\ outcome'[t] = "Committed"

\* C4: if any step of a transfer's unit of work fails or the request is
\* cancelled, the committed state afterwards is the committed state before:
\* only a COMMIT (or a funding from outside) changes the committed balances
\* and tables, and the step that ends a failed transfer changes none of them.
C4_FailedTransferChangesNothing ==
    [][ /\ (balance' # balance \/ tables' # tables) =>
                (funds' # funds \/ \E t \in Tasks : Commits(t))
        /\ \A t \in Tasks :
                (pc[t] = "rollback" /\ pc'[t] = "done") =>
                    (balance' = balance /\ tables' = tables)
      ]_vars

\* a transfer failed after it had debited the source and written rows: the
\* publish of its alert was rejected, and its ROLLBACK is still to come
C4_Witness ==
    \E t \in Tasks :
        /\ pc[t] = "rollback"
        /\ outcome[t] = "PublishError"
        /\ pend[t].transactions # {}
        /\ pend[t].audit_logs # {}
        /\ pend[t].delta[req[t].sourceAccountId] < 0

\* C5: for every committed transfer of amount a, the source balance after
\* the commit is exactly the balance read under the lock minus a, and the
\* destination balance is exactly its locked balance plus a.
C5_CommittedBalancesAreExact ==
    [][ \A t \in Tasks :
            Commits(t) =>
                /\ HalvesPerTick * balance'[req[t].sourceAccountId] =
                     HalvesPerTick * local[t].sourceAccount.balance
                        - req[t].amount
                /\ HalvesPerTick * balance'[req[t].destinationAccountId] =
                     HalvesPerTick * local[t].destinationAccount.balance
                        + req[t].amount
      ]_vars

\* the rows of the transfer numbered n
Legs(n) == {x \in transactions : x.id[1] = n}

\* x and y are the two sides of one transfer
Mirrored(x, y) ==
    /\ x.direction = "debit" /\ y.direction = "credit"
    /\ y.account_id = x.counterparty_account_id
    /\ y.counterparty_account_id = x.account_id
    /\ y.account_id # x.account_id
    /\ y.amount = x.amount
    /\ y.currency = x.currency
    /\ y.encrypted_payload = x.encrypted_payload
    /\ y.created_at = x.created_at

\* C6: every committed transfer has exactly one debit row on the source
\* naming the destination as counterparty and exactly one credit row on the
\* destination naming the source, with identical amount, currency, encrypted
\* payload and creation instant.
C6_OneDebitOneCreditMirrored ==
    /\ \A x \in transactions :
            \E d \in Legs(x.id[1]) : \E c \in Legs(x.id[1]) :
                Legs(x.id[1]) = {d, c} /\ Mirrored(d, c)
    /\ \A t \in Tasks :
            outcome[t] = "Committed" =>
                /\ Legs(local[t].debit.id[1]) =
                        {local[t].debit, local[t].credit}
                /\ Mirrored(local[t].debit, local[t].credit)
                /\ local[t].debit.account_id = req[t].sourceAccountId
                /\ local[t].credit.account_id = req[t].destinationAccountId
                /\ local[t].debit.currency = req[t].currency

\* two transfers have committed, one of them just now
C6_Witness ==
    /\ \E t \in Tasks : outcome[t] = "Committed"
    /\ Cardinality(transactions) = 4

\* C7: a transfer for more than the source's balance fails with
\* InsufficientFundsError, and doing so changes no balance, creates no
\* transaction row and appends no audit entry.
C7_OverdraftIsRejectedWithoutEffect ==
    [][ \A t \in Tasks :
            /\ ( /\ pc[t] = "check" /\ pc'[t] # "check"
                 /\ Eligible(req[t], scene[t].existing)
                 /\ req[t].amount >
                        HalvesPerTick * balance[req[t].sourceAccountId]
                 /\ outcome'[t] # "InternalError" )
                    => outcome'[t] = "InsufficientFundsError"
            /\ ( /\ "InsufficientFundsError" \in {outcome[t], outcome'[t]}
                 /\ pc'[t] # pc[t] )
                    => /\ pend[t] = NoPend /\ pend'[t] = NoPend
                       /\ balance' = balance
                       /\ tables' = tables
      ]_vars

\* a transfer asked for more than the funded source held and was refused
C7_Witness ==
    \E t \in Tasks :
        /\ pc[t] = "done"
        /\ outcome[t] = "InsufficientFundsError"
        /\ balance[req[t].sourceAccountId] > 0
        /\ req[t].amount > HalvesPerTick * balance[req[t].sourceAccountId]

\* the requester is a client and the source account, which was there when
\* the request arrived, is someone else's
NonOwner(r, there) ==
    /\ r.sourceAccountId \in there
    /\ r.requester.role = "client"
    /\ r.requester.id # Owner[r.sourceAccountId]

\* C8: a transfer requested by a client who does not own the source account
\* fails with ForbiddenError before any lock is taken on the destination
\* account, and it changes no state.
C8_NonOwnerNeverLocksDestination ==
    \A t \in Tasks :
        (pc[t] \in InTransaction \cup {"rollback"} /\ NonOwner(req[t], scene[t].existing)) =>
            /\ req[t].destinationAccountId \notin local[t].locks
            /\ pend[t] = NoPend
            /\ (pc[t] = "rollback" /\ outcome[t] # "InternalError") =>
                    outcome[t] = "ForbiddenError"

\* the audit entries that record a transfer
TransferEntries == {e \in audit_logs : e.event_type = "transaction.transfer"}

\* the committed transfers, each known by its debit row
CommittedDebits == {x \in transactions : x.direction = "debit"}

\* entry e records the transfer whose debit row is x
Records(e, x) ==
    /\ e.payload.debitTransactionId = x.id
    /\ \E c \in transactions :
            /\ c.direction = "credit"
            /\ c.id = e.payload.creditTransactionId
            /\ Mirrored(x, c)
    /\ e.payload.sourceAccountId = x.account_id
    /\ e.payload.destinationAccountId = x.counterparty_account_id

\* C9: the committed transfers and the audit entries of type
\* "transaction.transfer" naming their rows correspond one to one.
C9_TransfersAndAuditEntriesOneToOne ==
    /\ \A x \in CommittedDebits :
            Cardinality({e \in TransferEntries : Records(e, x)}) = 1
    /\ \A e \in TransferEntries :
            Cardinality({x \in CommittedDebits : Records(e, x)}) = 1

\* two transfers are committed, each with its audit entry
C9_Witness ==
    /\ Cardinality(CommittedDebits) = 2
    /\ Cardinality(TransferEntries) = 2

\* creation order of the audit entries: by created_at, and the entries of
\* one transaction (which share it) in the order they were inserted
Precedes(x, y) ==
    \/ x.created_at < y.created_at
    \/ x.created_at = y.created_at /\ x.id[2] < y.id[2]

\* the entries created before y with none between them and y
JustBefore(y) ==
    {x \in audit_logs :
        /\ Precedes(x, y)
        /\ ~ \E z \in audit_logs : Precedes(x, z) /\ Precedes(z, y)}

\* C10: replaying the committed audit entries in creation order reproduces
\* the chain: the first entry has no previous hash, every later entry's
\* previous hash is the hash of the entry immediately before it, and every
\* hash is the digest of (eventType, payload, previousHash).
C10_ReplayInCreationOrderReproducesChain ==
    \A y \in audit_logs :
        /\ y.hash = Digest(y.event_type, y.payload, y.previous_hash)
        /\ IF JustBefore(y) = {} THEN y.previous_hash = NullHash
           ELSE \A x \in JustBefore(y) : y.previous_hash = x.hash

\* C11: concurrent audit appends are serialized: no two committed audit
\* entries carry the same previous hash, so the chain never forks.
C11_NoTwoEntriesShareAPreviousHash ==
    \A x \in audit_logs : \A y \in audit_logs :
        x # y => x.previous_hash # y.previous_hash

\* the positions of createTransfer from the balance check to COMMIT
FromBalanceCheck == InTransaction \ {"lock_source", "lock_destination"}

\* task t holds the row lock of account a
Holds(t, a) == a \in Existing /\ lockOwner[a] = t /\ a \in local[t].locks

ServerErrors == {"InternalError", "DeadlockDetected"}

C13_OppositeTransfersNeverDeadlock ==
    \A t \in Tasks : \A u \in Tasks :
        /\ ~ (u \in WaitsFor(t) /\ t \in WaitsFor(u))
        /\ outcome[t] # "DeadlockDetected"

\* the request names two accounts that were there when it arrived, in a
\* currency that is not the currency of both, and its requester may debit
\* the source
CurrencyMismatch(r, there) ==
    /\ r.sourceAccountId \in there
    /\ r.destinationAccountId \in there
    /\ r.sourceAccountId # r.destinationAccountId
    /\ r.amount # NaN /\ r.amount > 0
    /\ r.requester.role = "client" =>
            r.requester.id = Owner[r.sourceAccountId]
    /\ \/ r.currency # AccountCurrency[r.sourceAccountId]
       \/ r.currency # AccountCurrency[r.destinationAccountId]

\* C14: a transfer whose source is its destination or whose amount is not
\* a number or not positive fails with ValidationError before the unit of
\* work starts; one whose currency is not that of both accounts fails with
\* ValidationError at the checks; a transfer failing so changes no balance
\* and no table.
C14_InvalidRequestFailsWithoutEffect ==
    [][ \A t \in Tasks :
            /\ ( /\ pc[t] = "idle" /\ pc'[t] # "idle"
                 /\ req'[t] # NoRequest
                 /\ \/ req'[t].sourceAccountId = req'[t].destinationAccountId
                    \/ req'[t].amount = NaN
                    \/ req'[t].amount <= 0 )
                    => /\ outcome'[t] = "ValidationError"
                       /\ pc'[t] = "done"
            /\ ( /\ pc[t] = "check" /\ pc'[t] # "check"
                 /\ CurrencyMismatch(req[t], scene[t].existing)
                 /\ outcome'[t] # "InternalError" )
                    => outcome'[t] = "ValidationError"
            /\ ( /\ "ValidationError" \in {outcome[t], outcome'[t]}
                 /\ pc'[t] # pc[t] )
                    => /\ pend[t] = NoPend /\ pend'[t] = NoPend
                       /\ balance' = balance
                       /\ tables' = tables
      ]_vars

\* a transfer in the wrong currency and a transfer of an amount that is
\* not a number were refused while the source held a funded balance
C14_Witness ==
    \E t \in Tasks : \E u \in Tasks :
        /\ pc[t] = "done"
        /\ outcome[t] = "ValidationError"
        /\ CurrencyMismatch(req[t], scene[t].existing)
        /\ balance[req[t].sourceAccountId] > 0
        /\ pc[u] = "done"
        /\ outcome[u] = "ValidationError"
        /\ req[u].amount = NaN
        /\ req[u].sourceAccountId # req[u].destinationAccountId

\* the request passes the checks made before the unit of work and names an
\* account that is not among `there'
NamesMissing(r, there) ==
    /\ r # NoRequest
    /\ r.sourceAccountId # r.destinationAccountId
    /\ r.amount # NaN /\ r.amount > 0
    /\ \/ r.sourceAccountId \notin there
       \/ r.destinationAccountId \notin there

\* C15: a transfer naming a source or a destination that does not exist
\* fails with NotFoundError, whichever of the two is missing; a transfer
\* failing so changes no balance and no table and leaves no row locked.
\* An account still missing at the checks was missing when it was looked
\* up, and an account missing then was missing when the request arrived.
C15_MissingAccountFailsWithoutEffect ==
    [][ \A t \in Tasks :
            /\ ( /\ pc[t] = "check" /\ pc'[t] # "check"
                 /\ NamesMissing(req[t], Existing)
                 /\ outcome'[t] # "InternalError" )
                    => outcome'[t] = "NotFoundError"
            /\ ( /\ "NotFoundError" \in {outcome[t], outcome'[t]}
                 /\ pc'[t] # pc[t] )
                    => /\ NamesMissing(req[t], scene[t].existing)
                       /\ pend[t] = NoPend /\ pend'[t] = NoPend
                       /\ balance' = balance
                       /\ tables' = tables
                       /\ pc'[t] \in {"done", "idle"} =>
                            \A a \in Existing : lockOwner'[a] # t
      ]_vars

\* two transfers were refused, one for its source and one for its
\* destination, while the existing account held a funded balance
C15_Witness ==
    \E t \in Tasks : \E u \in Tasks :
        /\ pc[t] = "done" /\ outcome[t] = "NotFoundError"
        /\ pc[u] = "done" /\ outcome[u] = "NotFoundError"
        /\ req[t].sourceAccountId \notin Existing
        /\ req[u].destinationAccountId \notin Existing
        /\ balance[req[u].sourceAccountId] > 0

\* publishToStream is running for task t
Publishing == {"publish", "connect", "xadd"}

\* entry e is the audit entry of alert a, written by the same unit of work
AuditsAlert(e, a) ==
    /\ e.event_type = "risk.alert.raised"
    /\ e.payload.alertId = a.id
    /\ e.payload.alertType = a.alert_type
    /\ e.payload.severity = a.severity
    /\ e.payload.accountId = a.account_id
    /\ e.id[1] = a.id[1]
    /\ e.created_at = a.triggered_at

\* C16: every committed alert has exactly one audit entry of type
\* "risk.alert.raised" with its id, written by the same unit of work; that
\* entry is appended when the alert row is already there; a unit of work
\* that is about to commit has audited every alert it raised, and alert and
\* entry become visible in the same commit.
C16_EveryAlertHasItsAuditEntry ==
    [][ /\ \A a \in risk_alerts' :
                Cardinality({e \in audit_logs' : AuditsAlert(e, a)}) = 1
        /\ \A a \in risk_alerts' \ risk_alerts :
                \E e \in audit_logs' \ audit_logs : AuditsAlert(e, a)
        /\ \A t \in Tasks :
            /\ \A e \in pend'[t].audit_logs \ pend[t].audit_logs :
                    e.event_type = "risk.alert.raised" =>
                        \E a \in pend[t].risk_alerts : AuditsAlert(e, a)
            /\ pc'[t] \in Publishing \cup {"alerts", "commit"} =>
                    \A a \in pend'[t].risk_alerts :
                        \E e \in pend'[t].audit_logs : AuditsAlert(e, a)
      ]_vars

\* C17: a failure of the publish to the alert stream, be it the connection
\* or the publish call itself, is not surfaced: the step that ends the
\* publish goes on raising alerts with the alert and its audit entry still
\* written, and the transfer is not ended by it.
C17_PublishFailureIsNeverSurfaced ==
    [][ \A t \in Tasks :
            ( /\ pc[t] \in Publishing /\ pc'[t] \notin Publishing
              /\ outcome'[t] # "InternalError" )
                => /\ pc'[t] = "alerts"
                   /\ outcome'[t] = "running"
                   /\ pend'[t] = pend[t]
                   /\ local[t].alert \in pend'[t].risk_alerts
      ]_vars

\* alert a is the alert of the failed AML check c
AmlFlagOf(a, c) ==
    /\ a.alert_type = "aml_flag"
    /\ a.severity = "critical"
    /\ a.account_id = "null"
    /\ a.details.transactionId = c.transaction_id
    /\ a.details.userId = c.user_id

\* C18: every committed transfer whose AML check failed has raised exactly
\* one alert of type aml_flag, critical and with no account id, naming the
\* transfer and the user.
C18_FailedAmlRaisesOneCriticalAlert ==
    \A c \in compliance_checks :
        (c.check_type = "aml-transaction" /\ c.status = "failed") =>
            Cardinality({a \in risk_alerts : AmlFlagOf(a, c)}) = 1

\* the memos that contain offshore, crypto, shell or hawala in any case
FlaggedMemos ==
    { <<"C", "r", "y", "p", "t", "o">>,
      <<"O", "F", "F", "S", "H", "O", "R", "E">>,
      <<"S", "h", "e", "l", "l">>,
      <<"s", "e", "a", "s", "h", "e", "l", "l", "s">>,
      <<"h", "a", "w", "a", "l", "a">>,
      <<"H", "a", "W", "a", "L", "a">>,
      <<"m", "y", " ", "c", "r", "y", "p", "t", "o">>,
      <<"r", "e", "n", "t", " ", "s", "h", "e", "l", "l">> }

\* the AML result a transfer has got back from simulateAml
AmlResults == {local[t].compliance[2] : t \in {u \in Tasks : Len(local[u].compliance) = 2}}

\* the aml-transaction records written so far, committed or not
AmlRecords ==
    {x \in compliance_checks \cup UNION {pend[t].compliance_checks : t \in Tasks} :
        x.check_type = "aml-transaction"}

\* C19: simulateAml's status is "failed" exactly when the amount is at least
\* 50000 or the memo contains one of the four words in any case; highValue
\* tells the first and memoPattern the second, in the result and in the
\* record; every call on the same pair gives the same status and flags.
C19_AmlIsAFunctionOfAmountAndMemo ==
    call.fn = "simulateAml" =>
        LET high == call.amount >= 50000 * TicksPerUnit * HalvesPerTick
            word == call.memo \in FlaggedMemos
        IN  /\ \A r \in AmlResults \cup AmlRecords :
                /\ r.status \in {"passed", "failed"}
                /\ r.status = "failed" <=> (high \/ word)
                /\ r.details.rulesTriggered.highValue <=> high
                /\ r.details.rulesTriggered.memoPattern <=> word
            /\ Cardinality(AmlResults) <= 1

\* two transfers of exactly 50000, or of the smallest amount with a word in
\* capitals, have come back from simulateAml
C19_Witness ==
    /\ call.fn = "simulateAml"
    /\ \A t \in Tasks : Len(local[t].compliance) = 2
    /\ \/ call.amount = Halves(AML_THRESHOLD) /\ call.memo = <<>>
       \/ call.amount = 1 /\ call.memo = <<"O", "F", "F", "S", "H", "O", "R", "E">>

\* runComplianceSimulation has returned to the transfer served by t
ComplianceReturned(t) ==
    \/ pc[t] \in {"compliance_done", "risk_source", "risk_transactions",
                  "risk_metric", "risk_anomaly", "risk_destination",
                  "commit"}
    \/ outcome[t] = "Committed"

\* rows are the two records of one compliance run for the transfer whose
\* debit row has the id debitId
TwoRecords(rows, debitId) ==
    /\ Cardinality(rows) = 2
    /\ \E k \in rows : \E a \in rows :
            /\ k.check_type = "kyc-profile"
            /\ k.status = "passed"
            /\ k.transaction_id = <<>>
            /\ a.check_type = "aml-transaction"
            /\ a.status \in {"passed", "failed"}
            /\ a.transaction_id = debitId
            /\ a.user_id = k.user_id

\* C20: a compliance run returns two results, the KYC result first and the
\* AML result second, and the KYC result has status "passed"; it has written
\* two records, one "kyc-profile" and one "aml-transaction", and every
\* committed transfer has exactly these two.
C20_ComplianceRunReturnsKycThenAml ==
    /\ \A t \in Tasks :
            ComplianceReturned(t) =>
                /\ Len(local[t].compliance) = 2
                /\ local[t].compliance[1].checkType = "kyc-profile"
                /\ local[t].compliance[1].status = "passed"
                /\ local[t].compliance[2].checkType = "aml-transaction"
                /\ local[t].compliance[2].status \in {"passed", "failed"}
                /\ outcome[t] # "Committed" =>
                        TwoRecords(pend[t].compliance_checks,
                                   local[t].debit.id)
    /\ \A x \in CommittedDebits :
            TwoRecords({c \in compliance_checks : c.id[1] = x.id[1]}, x.id)
    /\ \A c \in compliance_checks :
            \E x \in CommittedDebits : c.id[1] = x.id[1]

\* a transfer has committed with a failed AML result after another transfer
C20_Witness ==
    \E t \in Tasks :
        /\ outcome[t] = "Committed"
        /\ local[t].compliance[2].status = "failed"
        /\ Cardinality(compliance_checks) = 4

\* C23: a missing key pair is found when the configuration is loaded, in
\* every environment, so that no transfer request is accepted and then
\* failed for it.
C23_MissingKeyPairNeverFailsARequest ==
    \A t \in Tasks : outcome[t] # "KeyPairNotConfigured"

\* the members of a transfer's payload
PayloadMembers ==
    {"sourceAccountId", "destinationAccountId", "amount", "currency", "memo",
     "createdBy"}

\* C21: decrypting what encryptPayload returned gives the payload back,
\* member by member, with and without a transit service configured and
\* whatever that service answers.
C21_DecryptOfEncryptIsThePayload ==
    call.fn \in {"returned", "decrypt thrown"} =>
        /\ call.fn = "returned"
        /\ \A k \in PayloadMembers \cup DOMAIN call.out.value :
                Member(call.out.value, k) = Member(call.payload, k)

\* C22: decrypting an envelope with an external wrap returns the payload
\* also when the transit service is unreachable, answers with an error,
\* answers without a key, or answers with a key that is not the content key:
\* the asymmetric unwrap takes over.
C22_FallsBackToAsymmetricUnwrap ==
    ( /\ call.fn \in {"returned", "decrypt thrown"}
      /\ call.vault
      /\ call.response \in {"unreachable", "error", "no data", "wrong key"} )
        => /\ call.fn = "returned"
           /\ \A k \in PayloadMembers :
                Member(call.out.value, k) = Member(call.payload, k)

\* the rows of account a, and what an evaluation of a has written or is
\* about to raise
RowsOf(a) == {x \in transactions : x.account_id = a}
AnomalyRows == risk_anomalies \cup UNION {pend[t].risk_anomalies : t \in Tasks}
AlertRows == risk_alerts \cup UNION {pend[t].risk_alerts : t \in Tasks}

\* C24: an evaluation of an account with fewer than 5 transactions returns
\* no anomaly score, writes no anomaly event and raises no anomaly alert.
C24_FewerThanFiveGivesNoAnomaly ==
    \A t \in Tasks :
        ( /\ req[t] # NoRequest
          /\ Cardinality(RowsOf(req[t].destinationAccountId)) < 5 ) =>
            /\ AnomalyRows = {}
            /\ \A a \in AlertRows : a.alert_type # "anomaly_detection"
            /\ \A i \in 1..Len(local[t].alerts) :
                    local[t].alerts[i].alertType # "anomaly_detection"
            /\ outcome[t] = "Committed" =>
                    local[t].destinationRisk.anomalyScore = "undefined"

\* an account with four transactions was evaluated and alerts of other
\* kinds were raised
C24_Witness ==
    \E t \in Tasks :
        /\ outcome[t] = "Committed"
        /\ Cardinality(RowsOf(req[t].destinationAccountId)) = 4
        /\ risk_alerts # {}
        /\ risk_metrics # {}

\* the sum of the amounts of the rows of S that go in one direction and
\* were written between `from' and `to', by halves of that span
RECURSIVE TotalWithin(_, _, _, _)
TotalWithin(S, direction, from, to) ==
    LET within == {x \in S : from <= x.created_at /\ x.created_at <= to}
        half == from + (to - from) \div 2
    IN  IF within = {} THEN 0
        ELSE IF from = to
        THEN LET x == CHOOSE y \in within : TRUE
             IN  (IF x.direction = direction THEN Abs(x.amount) ELSE 0)
                    + TotalWithin(within \ {x}, direction, from, to)
        ELSE TotalWithin(within, direction, from, half)
                + TotalWithin(within, direction, half + 1, to)

\* the sum of the amounts of the rows of S that go in one direction
Total(S, direction) ==
    IF S = {} THEN 0
    ELSE TotalWithin(S, direction,
            (CHOOSE x \in S : \A y \in S : x.created_at <= y.created_at).created_at,
            (CHOOSE x \in S : \A y \in S : x.created_at >= y.created_at).created_at)

\* W holds the n most recent rows of S, all of S when S has no more than n:
\* no row left out is more recent than a row of W
MostRecent(W, S, n) ==
    /\ W \subseteq S
    /\ Cardinality(W) = (IF Cardinality(S) < n THEN Cardinality(S) ELSE n)
    /\ \A x \in W : \A y \in S \ W : x.created_at >= y.created_at

\* the ratio kept as <<numerator, denominator>> is n / d in these terms
IsRatio(pair, n, d) == d > 0 /\ pair = <<n, d>>

\* C26: the rows an evaluation works on are the account's 200 most recent
\* transactions, all of them when there are no more than 200, and the
\* evaluation returns exposure = max(0, D - C), leverage = D / max(balance, 1)
\* and lossRatio = max(0, D - C) / max(C, 1), D and C being the sums of the
\* absolute debit and credit amounts of these rows.
C26_MetricsFollowTheFormulas ==
    [][\A t \in Tasks :
        (pc[t] = "risk_anomaly" /\ pc'[t] = "alerts") =>
            LET a == local[t].risk.account
                W == local[t].risk.transactions
                D == Total(W, "debit")
                C == Total(W, "credit")
                r == local'[t][local[t].risk.field]
            IN  /\ MostRecent(W, RowsOf(a), WindowLimit)
                /\ r.exposure = (IF D > C THEN D - C ELSE 0)
                /\ IsRatio(r.leverage, D,
                           IF balance[a] > TicksPerUnit THEN balance[a]
                           ELSE TicksPerUnit)
                /\ IsRatio(r.lossRatio, IF D > C THEN D - C ELSE 0,
                           IF C > TicksPerUnit THEN C ELSE TicksPerUnit)]_vars

\* an account with a balance under one unit and more than 200 rows written
\* in different instants was evaluated: the window left a credit of hundreds
\* out, and the exposure returned is the 200 of the oldest debit kept plus
\* the one unit by which the debits of the 199 rows before it exceed their
\* credits
C26_Witness ==
    \E t \in Tasks :
        /\ outcome[t] = "Committed"
        /\ balance["A"] = TicksPerUnit \div 2
        /\ Cardinality(RowsOf("A")) > WindowLimit
        /\ \A x \in RowsOf("A"), y \in RowsOf("A") :
                x.created_at = y.created_at => x = y
        /\ \E x \in RowsOf("A") :
                x.created_at < 0 - WindowLimit /\ x.direction = "credit"
        /\ local[t].destinationRisk.exposure = 201 * TicksPerUnit
        /\ local[t].destinationRisk.leverage = <<300 * TicksPerUnit, TicksPerUnit>>

\* the snapshots written for account a by the unit of work numbered n
SnapshotsOf(rows, n, a) == {m \in rows : m.id[1] = n /\ m.account_id = a}

\* C27: every committed transfer has added exactly one snapshot for its
\* source and exactly one for its destination, each tagged with a window of
\* 90 days, and there is no other snapshot; a transfer about to commit has
\* written exactly these two.
C27_OneSnapshotPerEvaluation ==
    /\ \A x \in CommittedDebits :
        \A a \in {x.account_id, x.counterparty_account_id} :
            /\ Cardinality(SnapshotsOf(risk_metrics, x.id[1], a)) = 1
            /\ \A m \in SnapshotsOf(risk_metrics, x.id[1], a) :
                    m.observation_window = 90
    /\ Cardinality(risk_metrics) = 2 * Cardinality(CommittedDebits)
    /\ \A t \in Tasks :
            pc[t] = "commit" =>
                /\ Cardinality(pend[t].risk_metrics) = 2
                /\ \A a \in {req[t].sourceAccountId,
                              req[t].destinationAccountId} :
                        Cardinality(SnapshotsOf(pend[t].risk_metrics,
                                                local[t].n, a)) = 1

\* two transfers have committed and left four snapshots
C27_Witness ==
    /\ Cardinality(CommittedDebits) = 2
    /\ Cardinality(risk_metrics) = 4
    /\ \E t \in Tasks : outcome[t] = "Committed"

\* C25: the score of a sample is between 0 and 1, whatever the forest
\* fitted, an empty one included.
C25_ScoreIsBetweenZeroAndOne ==
    call.fn = "scored" => (0 <= call.score /\ call.score <= Milli)

\* a forest of two trees in which the sample ends at different depths gave
\* a score strictly between 0 and 1
C25_Witness ==
    /\ call.fn = "scored"
    /\ Len(call.trees) = 2
    /\ call.trees[1].depth # call.trees[2].depth
    /\ 0 < call.score /\ call.score < Milli

SeverityOrder == <<"low", "medium", "high", "critical">>

\* the place of a severity in low < medium < high < critical
Place(severity) == CHOOSE i \in 1..4 : SeverityOrder[i] = severity

\* C28: the alerts returned are at most limit distinct rows of the table,
\* a more severe alert comes before a less severe one and, of two alerts
\* of one severity, the more recent does not come after the older; with
\* limit 1 the alert returned is of the highest severity present and no
\* alert of that severity is more recent.
C28_ListIsBySeverityThenRecency ==
    call.fn = "listed" =>
        /\ Len(call.rows) <= call.limit
        /\ \A i \in 1..Len(call.rows) : call.rows[i] \in risk_alerts
        /\ \A i, j \in 1..Len(call.rows) : i < j =>
             /\ call.rows[i] # call.rows[j]
             /\ Place(call.rows[i].severity) >= Place(call.rows[j].severity)
             /\ Place(call.rows[i].severity) = Place(call.rows[j].severity)
                    => call.rows[i].triggered_at >= call.rows[j].triggered_at
        /\ (call.limit = 1 /\ risk_alerts # {}) =>
             /\ Len(call.rows) = 1
             /\ \A a \in risk_alerts :
                  /\ Place(a.severity) <= Place(call.rows[1].severity)
                  /\ a.severity = call.rows[1].severity
                        => a.triggered_at <= call.rows[1].triggered_at

\* of three alerts, an old critical one, a recent medium one and an older
\* medium one, two were asked for: the critical one and the recent medium
C28_Witness ==
    /\ call.fn = "listed"
    /\ call.limit = 2
    /\ Cardinality(risk_alerts) = 3
    /\ Len(call.rows) = 2
    /\ call.rows[1].severity = "critical" /\ call.rows[1].triggered_at = 1
    /\ call.rows[2].severity = "medium" /\ call.rows[2].triggered_at = 2
    /\ \E a \in risk_alerts : a.severity = "medium" /\ a.triggered_at = 1

\* the requests that obtained a new pair in exchange for a refresh token
Exchanges(token) ==
    {h \in responses :
        h.kind = "refresh" /\ h.presented = token /\ h.granted # <<>>}

\* C29: a refresh token is exchanged for a new pair at most once, the
\* exchange leaves the token revoked, and every refresh request that
\* arrives after the exchange and presents the token is refused.
C29_TokenIsExchangedAtMostOnce ==
    \A token \in Granted :
        /\ Cardinality(Exchanges(token)) <= 1
        /\ \A h \in Exchanges(token) :
              /\ \A r \in refresh_tokens :
                    r.token_id = token.tokenId => r.revoked_at # NullTime
              /\ \A later \in responses :
                    (/\ later.kind = "refresh"
                     /\ later.presented = token
                     /\ later.began > h.at) => later.granted = <<>>

\* the token issued at or before a given time to a user
IssuedBefore(token, user, time) ==
    \E r \in refresh_tokens : /\ r.token_id = token.tokenId
                              /\ r.user_id = user
                              /\ r.created_at < time

\* the step is the UPDATE of a logout of the user
LogsOut(user) ==
    \E h \in responses' \ responses : h.kind = "logout" /\ h.user = user

\* C30: once a user has logged out, every refresh token issued to the
\* user before the logout is revoked, every refresh request that arrives
\* after the logout and presents one of them is refused, and the logout
\* changes no token of another user.
C30_LogoutRevokesTheUsersTokensOnly ==
    /\ [](\A out \in {h \in responses : h.kind = "logout"} :
            /\ \A r \in refresh_tokens :
                  (r.user_id = out.user /\ r.created_at < out.at)
                      => r.revoked_at # NullTime
            /\ \A h \in responses :
                  (/\ h.kind = "refresh"
                   /\ h.began > out.at
                   /\ IssuedBefore(h.presented, out.user, out.at))
                      => h.granted = <<>>)
    /\ [][\A user \in AuthUsers : LogsOut(user) =>
            \A r \in refresh_tokens :
                r.user_id # user => r \in refresh_tokens']_vars

\* u1 logged in and u3 registered, u1 logged out, u1's token was presented
\* afterwards, before it expired, and refused, and u3's token is not
\* revoked
C30_Witness ==
    \E out \in responses : \E h \in responses :
        /\ out.kind = "logout" /\ out.user = "u1"
        /\ h.kind = "refresh" /\ h.began > out.at /\ h.granted = <<>>
        /\ h.began < h.presented.exp
        /\ IssuedBefore(h.presented, "u1", out.at)
        /\ \E r \in refresh_tokens : /\ r.user_id = "u3"
                                     /\ r.created_at < out.at
                                     /\ r.revoked_at = NullTime

\* two refresh requests were being served at the same time
Concurrent(h, g) == h # g /\ h.began < g.at /\ g.began < h.at

\* C38: of two refresh requests that present the same refresh token and
\* are served at the same time, at most one is answered with a new pair.
C38_OneOfTwoConcurrentRefreshesSucceeds ==
    \A h \in responses : \A g \in responses :
        (/\ h.kind = "refresh" /\ g.kind = "refresh"
         /\ h.presented = g.presented
         /\ Concurrent(h, g))
            => (h.granted = <<>> \/ g.granted = <<>>)

\* a request of a client for an account of another user; `owner' is the
\* row the route read
Denied(r, owner) ==
    /\ owner # NoRow
    /\ r.requester.role = "client"
    /\ r.requester.id # owner.user_id

\* a request of the owner, an admin or an auditor for an account
Entitled(r, owner) ==
    /\ owner # NoRow
    /\ \/ r.requester.role \in {"admin", "auditor"}
       \/ r.requester.id = owner.user_id

\* the step is the arrival of task t's request at one of the two routes
Arrives(t) == pc[t] = "idle" /\ pc'[t] # "idle"

\* C31: a client asking for the transactions or the risk metrics of an
\* account of another user is answered 403 with no data, and the request
\* runs no risk evaluation and writes no row; the owner, an admin and an
\* auditor are never answered 403 or 404, and their answer 200 carries the
\* account's transactions or its metrics.
C31_OnlyOwnerAndStaffAreServed ==
    /\ [](\A t \in Tasks : pc[t] # "idle" =>
            /\ Denied(req[t], local[t].destinationAccount) =>
                  /\ pc[t] = "done"
                  /\ outcome[t] = "403"
                  /\ local[t].served = NoRow
                  /\ pend[t] = NoPend
            /\ (Entitled(req[t], local[t].destinationAccount) /\ pc[t] = "done") =>
                  /\ outcome[t] \notin {"403", "404"}
                  /\ outcome[t] = "200" =>
                        IF req[t].route = "transactions"
                        THEN local[t].served.rows =
                                {x \in transactions :
                                    x.account_id = req[t].destinationAccountId}
                        ELSE \A m \in local[t].served.metrics :
                                m.accountId = req[t].destinationAccountId)
    /\ [][\A t \in Tasks : (Arrives(t) /\ Denied(req'[t], local'[t].destinationAccount)) =>
                UNCHANGED <<tables, balance>>]_vars

\* a client was refused the metrics of A, which is not theirs, while the
\* owner of A was answered with a snapshot evaluated for the request
C31_Witness ==
    \E t \in Tasks : \E u \in Tasks :
        /\ pc[t] = "done" /\ pc[u] = "done"
        /\ Denied(req[t], local[t].destinationAccount) /\ req[t].route = "metrics"
        /\ req[t].destinationAccountId = "A"
        /\ outcome[t] = "403"
        /\ req[u].route = "metrics" /\ req[u].requester.id = "u1"
        /\ req[u].destinationAccountId = "A"
        /\ outcome[u] = "200"
        /\ local[u].served.metrics # {}
        /\ \E m \in risk_metrics : m.id[1] > 0

\* the audit entries appended so far, committed or not
Appended == audit_logs \cup UNION {pend[t].audit_logs : t \in Tasks}

\* C32: of the audit entries one transfer appends inside its unit of work,
\* every entry after the first carries as previous hash the hash of the
\* entry the transfer appended immediately before it.
C32_EntriesOfOneTransferAreChained ==
    \A y \in Appended : \A x \in Appended :
        (x.id[1] = y.id[1] /\ x.id[2] + 1 = y.id[2])
            => y.previous_hash = x.hash

\* the rows task t's unit of work has written of one kind
Wrote(t, table) == pend[t][table] # {}

WroteEntry(t, eventType) ==
    \E x \in pend[t].audit_logs : x.event_type = eventType

WroteMetric(t, a) == \E m \in pend[t].risk_metrics : m.account_id = a

AtLeastOneUnit(ticks) == IF ticks > TicksPerUnit THEN ticks ELSE TicksPerUnit

\* C33: a transfer debits, credits, inserts the debit row, inserts the
\* credit row, appends the audit entry, runs compliance, evaluates the
\* source and then the destination: nothing of a later step is written
\* before an earlier step; and a transfer about to commit on accounts
\* without earlier rows returns evaluations made from the balances after
\* the transfer, as the unit of work is about to commit them, and from its
\* own two rows (source exposure is the amount and leverage the amount
\* over the new balance; destination exposure 0 and loss ratio 0).
C33_StepsInOrderAndRiskAfterTransfer ==
    \A t \in Tasks :
        /\ pc[t] \in {"lock_source", "lock_destination", "check", "debit"}
                => pend[t] = NoPend
        /\ pc[t] = "credit" =>
                /\ pend[t].delta[req[t].destinationAccountId] = 0
                /\ ~Wrote(t, "transactions")
        /\ pc[t] = "insert_debit" => ~Wrote(t, "transactions")
        /\ pc[t] = "insert_credit" =>
                /\ pend[t].transactions = {local[t].debit}
                /\ ~Wrote(t, "audit_logs")
        /\ Wrote(t, "audit_logs") =>
                pend[t].transactions = {local[t].debit, local[t].credit}
        /\ Wrote(t, "compliance_checks") =>
                WroteEntry(t, "transaction.transfer")
        /\ Wrote(t, "risk_metrics") =>
                /\ Cardinality(pend[t].compliance_checks) = 2
                /\ WroteMetric(t, req[t].sourceAccountId)
        /\ (pc[t] = "commit" /\ transactions = {}) =>
                LET src == req[t].sourceAccountId
                    dst == req[t].destinationAccountId
                    moved == local[t].debit.amount
                IN  /\ local[t].sourceRisk.exposure = moved
                    /\ local[t].sourceRisk.leverage =
                            <<moved, AtLeastOneUnit(balance[src]
                                                    + pend[t].delta[src])>>
                    /\ local[t].destinationRisk.exposure = 0
                    /\ local[t].destinationRisk.lossRatio[1] = 0
                    /\ local[t].destinationRisk.leverage =
                            <<0, AtLeastOneUnit(balance[dst]
                                                + pend[t].delta[dst])>>

\* the first transfer, 250 from an account funded with 1000, is about to
\* commit with exposure 250 for its source
C33_Witness ==
    \E t \in Tasks :
        /\ pc[t] = "commit"
        /\ transactions = {}
        /\ req[t].amount = Halves(250)
        /\ balance[req[t].sourceAccountId] = 1000 * TicksPerUnit
        /\ local[t].sourceRisk.exposure = 250 * TicksPerUnit
        /\ local[t].sourceRisk.leverage
                = <<250 * TicksPerUnit, 750 * TicksPerUnit>>

\* C34: transaction rows and audit entries are append-only: every step
\* leaves every committed transaction row and every committed audit entry
\* in place with all its fields, so both committed sets only grow.
C34_TransactionsAndAuditOnlyGrow ==
    [][/\ transactions \subseteq transactions'
       /\ audit_logs \subseteq audit_logs']_vars

\* a second transfer has committed its rows and entries next to those of
\* the first
C34_Witness ==
    /\ \E x \in transactions : x.id[1] = 1
    /\ \E x \in transactions : x.id[1] = 2
    /\ \E x \in audit_logs : x.id[1] = 1
    /\ \E x \in audit_logs : x.id[1] = 2

\* the envelopes encryptPayload has returned to createTransfer and the
\* ones stored on committed transaction rows
Envelopes ==
    {local[t].encryptedPayload : t \in Tasks}
        \cup {x.encrypted_payload : x \in transactions}

\* the content key can be read from the envelope's external-wrap field
\* without the private key
KeyInTheClear(envelope) ==
    FromBase64(envelope.vaultCiphertext) = privateDecrypt(envelope.encryptedKey)

\* C35: with no key-management service configured, an envelope returned by
\* encryptPayload, stored on the transaction rows and echoed to the caller,
\* has no external-wrap field and no field that gives the content key
\* without the private key.
C35_WrapIsLocalOnlyWithoutKeyService ==
    \A envelope \in Envelopes :
        /\ "vaultCiphertext" \notin DOMAIN envelope
        /\ "vaultCiphertext" \in DOMAIN envelope => ~KeyInTheClear(envelope)

\* the alerts that are committed, and those a unit of work still in
\* progress has persisted
LiveAlerts ==
    risk_alerts \cup UNION {pend[t].risk_alerts : t \in Tasks}

\* C36: a summary is on the alert stream only for an alert that ends up
\* committed: once the unit of work that raised an alert has rolled back,
\* no summary of that alert has been published.
C36_OnlyCommittedAlertsArePublished ==
    \A entry \in stream : \E alert \in LiveAlerts : alert.id = entry.id

\* a call of withTransaction has resolved or rejected
TxEnded == call.fn = "withTransaction" /\ call.at \in {"returned", "thrown"}

TxIssued(statement) ==
    \E i \in 1..Len(call.issued) : call.issued[i] = statement

\* COMMIT is sent only after the handler completed
CommitOnlyAfterHandler ==
    call.fn = "withTransaction" /\ TxIssued("COMMIT")
        => call.handler = "completed"

\* ROLLBACK is sent whenever the handler or the COMMIT failed
RollbackOnFailure ==
    TxEnded /\ (call.handler = "failed" \/ call.caught = "CommitError")
        => TxIssued("ROLLBACK")

\* a failed handler's error is what the caller gets
HandlerErrorRethrown ==
    TxEnded /\ call.handler = "failed"
        => call.at = "thrown" /\ call.thrown = call.caught

\* the client is released once on every path that obtained it, and never
\* more than once
ReleasedOnce ==
    call.fn = "withTransaction"
        => /\ call.released <= 1
           /\ TxEnded /\ call.client => call.released = 1

\* C37: withTransaction sends COMMIT only if the handler completed without
\* error, sends ROLLBACK whenever the handler or the COMMIT fails, rethrows
\* the handler's error to the caller, and releases the client exactly once
\* on every path, also when ROLLBACK itself fails.
C37_CommitRollbackRethrowRelease ==
    /\ CommitOnlyAfterHandler
    /\ RollbackOnFailure
    /\ HandlerErrorRethrown
    /\ ReleasedOnce

====
